---- MODULE Spec2Model ----
(***************************************************************************)
(* MCPProbe: the tool-calling client (flags, mode dispatch, direct call,   *)
(* interactive session, guided parameter collection, timeout scopes).      *)
(* The model follows the Go program embedded in src/cmdline.md (the        *)
(* version with the -timeout and -call-timeout flags).                     *)
(*                                                                         *)
(* Text is a sequence of one-character strings, so that TrimSpace, Fields, *)
(* Atoi, ParseFloat and the JSON decoder are computed, not assumed.        *)
(***************************************************************************)
EXTENDS Integers, Sequences, FiniteSets, TLC

\* ------------------------------------------------------------------ bounds
\* call attempts in one interactive session
MaxCalls == 2
\* clock ticks of the connection/listing timeout (-timeout)
TimeoutTicks == 1
\* clock ticks of the call timeout (-call-timeout)
CallTimeoutTicks == 2
\* phrases in an error text handed to handleToolCallError on its own
MaxTokens == 2

\* ------------------------------------------------------------------ text
Digits == <<"0", "1", "2", "3", "4", "5", "6", "7", "8", "9">>

IsDigit(c) == \E i \in 1..10 : Digits[i] = c

DigitVal(c) == (CHOOSE i \in 1..10 : Digits[i] = c) - 1

IsSpace(c) == c \in {" ", "\t"}

Range(f) == {f[i] : i \in DOMAIN f}

\* strings.TrimSpace
RECURSIVE TrimLeft(_)
TrimLeft(s) ==
    IF s # <<>> /\ IsSpace(Head(s)) THEN TrimLeft(Tail(s)) ELSE s

RECURSIVE TrimRight(_)
TrimRight(s) ==
    IF s # <<>> /\ IsSpace(s[Len(s)]) THEN TrimRight(SubSeq(s, 1, Len(s) - 1)) ELSE s

TrimSpace(s) == TrimRight(TrimLeft(s))

\* the first field of s (s has no leading space): the characters up to the first space
RECURSIVE FirstField(_)
FirstField(s) ==
    IF s = <<>> \/ IsSpace(Head(s)) THEN <<>> ELSE <<Head(s)>> \o FirstField(Tail(s))

\* strings.Fields
RECURSIVE Fields(_)
Fields(s) ==
    LET t == TrimLeft(s)
        f == FirstField(t)
    IN  IF t = <<>> THEN <<>>
        ELSE <<f>> \o Fields(SubSeq(t, Len(f) + 1, Len(t)))

\* strings.Split(s, ",")
RECURSIVE SplitComma(_)
SplitComma(s) ==
    IF \A i \in 1..Len(s) : s[i] # ","
    THEN <<s>>
    ELSE LET k == CHOOSE i \in 1..Len(s) : s[i] = "," /\ \A j \in 1..(i - 1) : s[j] # ","
         IN  <<SubSeq(s, 1, k - 1)>> \o SplitComma(SubSeq(s, k + 1, Len(s)))

\* the value of a run of digits
RECURSIVE DigitsVal(_)
DigitsVal(s) ==
    IF s = <<>> THEN 0 ELSE 10 * DigitsVal(SubSeq(s, 1, Len(s) - 1)) + DigitVal(s[Len(s)])

AllDigits(s) == \A i \in 1..Len(s) : IsDigit(s[i])

\* strconv.Atoi: an optional sign and at least one digit, nothing else
Atoi(s) ==
    LET signed == s # <<>> /\ Head(s) \in {"+", "-"}
        body == IF signed THEN Tail(s) ELSE s
    IN  IF body # <<>> /\ AllDigits(body)
        THEN [ok |-> TRUE,
              n |-> IF signed /\ Head(s) = "-" THEN 0 - DigitsVal(body) ELSE DigitsVal(body)]
        ELSE [ok |-> FALSE, n |-> 0]

\* ------------------------------------------------------------------ values
\* A Go value held in a parameter map (interface{}).  Every value has the same
\* fields so that two values of different kinds can be compared:
\*   t      "null" | "bool" | "float" | "int" | "string" | "array" | "strings" | "object"
\*   s      the text of a string
\*   n, d   a number n/d (d a power of ten), or n = 1/0 for a bool
\*   keys   the keys of an object, elems the elements of an array or the values
\*          of an object ("strings" is a []string, "array" a []interface{})
MkVal(t, s, n, d, keys, elems) ==
    [t |-> t, s |-> s, n |-> n, d |-> d, keys |-> keys, elems |-> elems]

NullV == MkVal("null", <<>>, 0, 1, <<>>, <<>>)

BoolV(b) == MkVal("bool", <<>>, IF b THEN 1 ELSE 0, 1, <<>>, <<>>)

StrV(s) == MkVal("string", s, 0, 1, <<>>, <<>>)

IntV(n) == MkVal("int", <<>>, n, 1, <<>>, <<>>)

RECURSIVE NormN(_, _)
NormN(n, d) == IF d > 1 /\ n % 10 = 0 THEN NormN(n \div 10, d \div 10) ELSE n

RECURSIVE NormD(_, _)
NormD(n, d) == IF d > 1 /\ n % 10 = 0 THEN NormD(n \div 10, d \div 10) ELSE d

\* the float64 n/d, in lowest decimal terms
FloatV(n, d) == MkVal("float", <<>>, NormN(n, d), NormD(n, d), <<>>, <<>>)

ArrV(elems) == MkVal("array", <<>>, 0, 1, <<>>, elems)

ObjV(keys, elems) == MkVal("object", <<>>, 0, 1, keys, elems)

\* a []string, as strings.Split returns it
StringsV(parts) == MkVal("strings", <<>>, 0, 1, <<>>, [i \in DOMAIN parts |-> StrV(parts[i])])

RECURSIVE Pow10(_)
Pow10(k) == IF k = 0 THEN 1 ELSE 10 * Pow10(k - 1)

\* Go's int(f) of a float64: truncation toward zero
Trunc(n, d) == IF n >= 0 THEN n \div d ELSE 0 - ((0 - n) \div d)

\* strconv.ParseFloat(s, 64) on decimal text: an optional sign, digits with an
\* optional point, at least one digit (exponents, hex, inf and nan are not in
\* the input alphabet)
ParseFloat(s) ==
    LET signed == s # <<>> /\ Head(s) \in {"+", "-"}
        body == IF signed THEN Tail(s) ELSE s
        dots == {i \in 1..Len(body) : body[i] = "."}
        p == IF dots = {} THEN Len(body) + 1 ELSE CHOOSE i \in dots : TRUE
        ip == SubSeq(body, 1, p - 1)
        fp == SubSeq(body, p + 1, Len(body))
        mag == DigitsVal(ip) * Pow10(Len(fp)) + DigitsVal(fp)
    IN  IF Cardinality(dots) <= 1 /\ AllDigits(ip) /\ AllDigits(fp) /\ Len(ip) + Len(fp) > 0
        THEN [ok |-> TRUE,
              n |-> IF signed /\ Head(s) = "-" THEN 0 - mag ELSE mag,
              d |-> Pow10(Len(fp))]
        ELSE [ok |-> FALSE, n |-> 0, d |-> 1]

\* ------------------------------------------------------------------ JSON
\* encoding/json decoding of objects, arrays, strings without escapes, decimal
\* numbers, true, false and null
RECURSIVE SkipWS(_, _)
SkipWS(s, i) == IF i <= Len(s) /\ IsSpace(s[i]) THEN SkipWS(s, i + 1) ELSE i

ParseFail == [ok |-> FALSE, val |-> NullV, next |-> 0]

ParseOk(v, next) == [ok |-> TRUE, val |-> v, next |-> next]

HasAt(s, i, lit) == i + Len(lit) - 1 <= Len(s) /\ SubSeq(s, i, i + Len(lit) - 1) = lit

\* a string literal starting at the quote s[i] and ending at the quote s[e]
StringTo(s, i, e) ==
    IF \E k \in (i + 1)..(e - 1) : s[k] = "\\" THEN ParseFail
    ELSE ParseOk(StrV(SubSeq(s, i + 1, e - 1)), e + 1)

\* a string literal starting at the quote s[i]
ParseString(s, i) ==
    IF i > Len(s) \/ s[i] # "\"" \/ \A j \in (i + 1)..Len(s) : s[j] # "\"" THEN ParseFail
    ELSE StringTo(s, i, CHOOSE j \in (i + 1)..Len(s) :
                            s[j] = "\"" /\ \A k \in (i + 1)..(j - 1) : s[k] # "\"")

RECURSIVE NumEnd(_, _)
NumEnd(s, i) ==
    IF i <= Len(s) /\ (IsDigit(s[i]) \/ s[i] \in {"-", "+", "."}) THEN NumEnd(s, i + 1) ELSE i

\* the digits of a JSON number after its sign: (0 | [1-9][0-9]*) (. [0-9]+)?
\* with k the place of the point, or one past the end when there is none
IsNumberBody(body) ==
    \E k \in 2..(Len(body) + 1) :
        /\ \A j \in 1..Len(body) : (body[j] = ".") <=> (j = k)
        /\ \A j \in 1..Len(body) : j # k => IsDigit(body[j])
        /\ k = 2 \/ body[1] # "0"
        /\ k # Len(body)

\* the JSON number txt, which ends before s[e]
NumberTo(txt, e) ==
    IF txt # <<>> /\ IsNumberBody(IF Head(txt) = "-" THEN Tail(txt) ELSE txt)
    THEN ParseOk(FloatV(ParseFloat(txt).n, ParseFloat(txt).d), e)
    ELSE ParseFail

\* a JSON number starting at s[i]
ParseNumber(s, i) == NumberTo(SubSeq(s, i, NumEnd(s, i) - 1), NumEnd(s, i))

RECURSIVE ParseValue(_, _)
RECURSIVE ParseElems(_, _, _)
RECURSIVE ParseMembers(_, _, _, _)

\* the value starting at s[i], s[i] not a space
ValueAt(s, i) ==
    IF i > Len(s) THEN ParseFail
    ELSE IF s[i] = "{"
    THEN IF SkipWS(s, i + 1) <= Len(s) /\ s[SkipWS(s, i + 1)] = "}"
         THEN ParseOk(ObjV(<<>>, <<>>), SkipWS(s, i + 1) + 1)
         ELSE ParseMembers(s, SkipWS(s, i + 1), <<>>, <<>>)
    ELSE IF s[i] = "["
    THEN IF SkipWS(s, i + 1) <= Len(s) /\ s[SkipWS(s, i + 1)] = "]"
         THEN ParseOk(ArrV(<<>>), SkipWS(s, i + 1) + 1)
         ELSE ParseElems(s, SkipWS(s, i + 1), <<>>)
    ELSE IF s[i] = "\"" THEN ParseString(s, i)
    ELSE IF HasAt(s, i, <<"t", "r", "u", "e">>) THEN ParseOk(BoolV(TRUE), i + 4)
    ELSE IF HasAt(s, i, <<"f", "a", "l", "s", "e">>) THEN ParseOk(BoolV(FALSE), i + 5)
    ELSE IF HasAt(s, i, <<"n", "u", "l", "l">>) THEN ParseOk(NullV, i + 4)
    ELSE ParseNumber(s, i)

ParseValue(s, i0) == ValueAt(s, SkipWS(s, i0))

\* the rest of an array after its element v, which is followed by s[j]
ElemsAfter(s, acc, v, j) ==
    IF ~v.ok \/ j > Len(s) THEN ParseFail
    ELSE IF s[j] = "," THEN ParseElems(s, j + 1, Append(acc, v.val))
    ELSE IF s[j] = "]" THEN ParseOk(ArrV(Append(acc, v.val)), j + 1)
    ELSE ParseFail

ElemsFrom(s, acc, v) == ElemsAfter(s, acc, v, SkipWS(s, v.next))

ParseElems(s, i, acc) == ElemsFrom(s, acc, ParseValue(s, i))

\* the rest of an object after its member k: v, which is followed by s[j]
MembersAfter(s, keys, vals, k, v, j) ==
    IF ~v.ok \/ j > Len(s) THEN ParseFail
    ELSE IF s[j] = ","
    THEN ParseMembers(s, SkipWS(s, j + 1), Append(keys, k.val.s), Append(vals, v.val))
    ELSE IF s[j] = "}"
    THEN ParseOk(ObjV(Append(keys, k.val.s), Append(vals, v.val)), j + 1)
    ELSE ParseFail

MemberValue(s, keys, vals, k, v) == MembersAfter(s, keys, vals, k, v, SkipWS(s, v.next))

\* the member whose key k is followed by s[c]
MemberFrom(s, keys, vals, k, c) ==
    IF ~k.ok \/ c > Len(s) \/ s[c] # ":" THEN ParseFail
    ELSE MemberValue(s, keys, vals, k, ParseValue(s, c + 1))

MemberKey(s, keys, vals, k) == MemberFrom(s, keys, vals, k, SkipWS(s, k.next))

ParseMembers(s, i, keys, vals) == MemberKey(s, keys, vals, ParseString(s, i))

\* r is the whole of s: nothing but space follows it
Whole(s, r) == IF r.ok /\ SkipWS(s, r.next) > Len(s) THEN r ELSE ParseFail

\* the whole text is one JSON value
Decode(s) == Whole(s, ParseValue(s, 1))

\* a Go map[string]interface{}: a function from keys to values; a repeated key
\* keeps its last value
ObjToMap(v) ==
    [k \in Range(v.keys) |->
        v.elems[CHOOSE i \in DOMAIN v.keys :
                    v.keys[i] = k /\ \A j \in DOMAIN v.keys : v.keys[j] = k => j <= i]]

EmptyMap == [k \in {} |-> NullV]

\* json.Unmarshal into an interface{}
UnmarshalAny(s) == Decode(s).ok

\* a decoded value stored into a map[string]interface{}: an object, or null (a nil map)
IntoMap(r) ==
    IF r.ok /\ r.val.t = "object" THEN [ok |-> TRUE, val |-> r.val, map |-> ObjToMap(r.val)]
    ELSE IF r.ok /\ r.val.t = "null" THEN [ok |-> TRUE, val |-> ObjV(<<>>, <<>>), map |-> EmptyMap]
    ELSE [ok |-> FALSE, val |-> NullV, map |-> EmptyMap]

\* json.Unmarshal into a map[string]interface{}
UnmarshalMap(s) == IntoMap(Decode(s))

\* a decoded value stored into a []interface{}: an array, or null (a nil slice)
IntoSlice(r) ==
    IF r.ok /\ r.val.t = "array" THEN [ok |-> TRUE, val |-> r.val]
    ELSE IF r.ok /\ r.val.t = "null" THEN [ok |-> TRUE, val |-> ArrV(<<>>)]
    ELSE [ok |-> FALSE, val |-> NullV]

\* json.Unmarshal into a []interface{}
UnmarshalSlice(s) == IntoSlice(Decode(s))

\* ------------------------------------------------------------------ inputs
\* what the operator types at the "> " prompt
L_empty == <<>>

L_exit == <<"e", "x", "i", "t">>

L_q == <<"q">>

L_help == <<"h", "e", "l", "p">>

L_list == <<"l", "s">>

L_call == <<"c", "a", "l", "l">>

L_c == <<"c">>

L_1 == <<"1">>

L_2 == <<"2">>

L_3 == <<"3">>

L_4 == <<"4">>

L_5 == <<"5">>

L_6 == <<"6">>

L_call1 == <<"c", "a", "l", "l", " ", "1">>

L_call2 == <<" ", "c", "a", "l", "l", " ", " ", "2", " ">>

L_c3 == <<"c", " ", "3">>

L_c4 == <<"c", " ", "4">>

L_call5 == <<"c", "a", "l", "l", " ", "5">>

L_0 == <<"0">>

L_9 == <<"9">>

L_call9 == <<"c", "a", "l", "l", " ", "9">>

L_callx == <<"c", "a", "l", "l", " ", "x">>

L_foo == <<"f", "o", "o">>

L_cancel == <<"c", "a", "n", "c", "e", "l">>

L_x == <<"x">>

L_l == <<"l">>

L_listWord == <<"l", "i", "s", "t">>

L_quit == <<"q", "u", "i", "t">>

L_h == <<"h">>

L_what == <<"?">>

L_LS == <<"L", "S">>

\* the name of the first tool of the catalogue
L_echo == <<"e", "c", "h", "o">>

CommandLines ==
    {L_empty, L_exit, L_q, L_help, L_list, L_call, L_c, L_1, L_2, L_3, L_4, L_5,
     L_6, L_call1, L_call2, L_c3, L_c4, L_call5, L_0, L_9, L_call9, L_callx, L_foo,
     L_l, L_listWord, L_quit, L_h, L_what, L_LS, L_echo}

\* what the operator types at "Enter tool number (or 'cancel'): "
SelectionLines == {L_empty, L_cancel, L_1, L_2, L_3, L_4, L_5, L_6, L_9, L_x, L_echo}

\* what the operator types at a parameter prompt
A_blank == <<" ">>

A_Hello == <<"H", "e", "l", "l", "o">>

A_7 == <<"7">>

A_7p5 == <<"7", ".", "5">>

A_obj == <<"{", "\"", "a", "\"", ":", "1", "}">>

A_arr == <<"[", "1", "]">>

A_null == <<"n", "u", "l", "l">>

AnswerLines == {L_empty, A_blank, A_Hello, A_7, A_7p5}

\* what the operator types at the free-form JSON prompt
JSONLines == {L_empty, A_blank, A_Hello, A_obj, A_arr, A_null}

\* the -params strings
P_default == <<"{", "}">>

P_msg == <<"{", "\"", "m", "e", "s", "s", "a", "g", "e", "\"", ":", "\"", "H", "e", "l", "l", "o", "\"", "}">>

P_bad == <<"{", "b", "a", "d">>

P_calc ==
    <<"{", "\"", "o", "p", "e", "r", "a", "t", "i", "o", "n", "\"", ":", "\"", "a", "d",
      "d", "\"", ",", "\"", "x", "\"", ":", "5", ",", "\"", "y", "\"", ":", "3", "}">>

ParamStrings == {L_empty, P_default, P_msg, P_bad, P_calc, A_arr, A_null}

\* property names
N_message == <<"m", "e", "s", "s", "a", "g", "e">>

N_x == <<"x">>

N_n == <<"n">>

N_ghost == <<"g", "h", "o", "s", "t">>

N_operation == <<"o", "p", "e", "r", "a", "t", "i", "o", "n">>

N_y == <<"y">>

\* ------------------------------------------------------------------ the tool catalogue
\* A property of an input schema: typed says that its "type" is a string.
PropS(name, typed, type) == [name |-> name, typed |-> typed, type |-> type]

\* an entry of "required": a string, or something else
ReqS(s) == [isStr |-> TRUE, s |-> s]

ReqOther == [isStr |-> FALSE, s |-> <<>>]

\* kind is what json.Marshal(tool.InputSchema) gives: "null", "empty" ({}),
\* "unparsable" (not an object) or "object"; an object without a "properties"
\* map has props = <<>>
SchemaOf(kind, props, required) == [kind |-> kind, props |-> props, required |-> required]

Tools ==
    << [name |-> "echo",
        schema |-> SchemaOf("object", <<PropS(N_message, TRUE, "string")>>, <<ReqS(N_message)>>)],
       [name |-> "calc",
        schema |-> SchemaOf("object",
                            <<PropS(N_x, TRUE, "number"), PropS(N_n, TRUE, "integer")>>,
                            <<ReqS(N_x), ReqOther, ReqS(N_ghost)>>)],
       [name |-> "ping", schema |-> SchemaOf("null", <<>>, <<>>)],
       [name |-> "nop", schema |-> SchemaOf("object", <<>>, <<>>)],
       [name |-> "raw", schema |-> SchemaOf("unparsable", <<>>, <<>>)],
       [name |-> "void", schema |-> SchemaOf("empty", <<>>, <<>>)] >>

PropNames(schema) == {schema.props[i].name : i \in DOMAIN schema.props}

PropOf(schema, name) == schema.props[CHOOSE i \in DOMAIN schema.props : schema.props[i].name = name]

\* required := the string entries of schemaMap["required"]
RequiredSet(schema) == {e.s : e \in {r \in Range(schema.required) : r.isStr}}

\* a propType that is "string" unless the "type" is one of the six known types
PropType_Known(prop) ==
    IF prop.typed /\ prop.type \in {"string", "number", "integer", "boolean", "array", "object"}
    THEN prop.type ELSE "string"

\* propType := "string" unless the property's "type" is a string
PropType(prop) == IF prop.typed THEN prop.type ELSE "string"

\* the sequences without repetition over a set of names
Perms(S) == {q \in [1..Cardinality(S) -> S] : \A i, j \in 1..Cardinality(S) : q[i] = q[j] => i = j}

\* `for propName, propSchema := range properties`: properties is a Go map, and
\* the order of a range over a map is not specified: any order may come out
Orders(schema) == Perms(PropNames(schema))

\* ------------------------------------------------------------------ pure functions
\* a validateInputs that examines -params whether or not a tool is named
validateInputs_AnyTool(toolName, paramsJSON) ==
    /\ paramsJSON # <<>>
    /\ paramsJSON # P_default
    /\ ~UnmarshalAny(paramsJSON)

\* validateInputs: TRUE when it returns an error
validateInputs(toolName, paramsJSON) ==
    /\ toolName # ""
    /\ paramsJSON # <<>>
    /\ paramsJSON # P_default
    /\ ~UnmarshalAny(paramsJSON)

\* a parseToolParameters that turns text it cannot decode into no parameters
parseToolParameters_Lenient(paramsJSON) ==
    [ok |-> TRUE, map |-> UnmarshalMap(paramsJSON).map]

\* parseToolParameters
parseToolParameters(paramsJSON) ==
    IF paramsJSON = <<>> \/ paramsJSON = P_default
    THEN [ok |-> TRUE, map |-> EmptyMap]
    ELSE [ok |-> UnmarshalMap(paramsJSON).ok, map |-> UnmarshalMap(paramsJSON).map]

LowerCase == <<"a", "b", "c", "d", "e", "f", "g", "h", "i", "j", "k", "l", "m",
               "n", "o", "p", "q", "r", "s", "t", "u", "v", "w", "x", "y", "z">>

UpperCase == <<"A", "B", "C", "D", "E", "F", "G", "H", "I", "J", "K", "L", "M",
               "N", "O", "P", "Q", "R", "S", "T", "U", "V", "W", "X", "Y", "Z">>

\* strings.ToLower
ToLower(s) ==
    [i \in DOMAIN s |->
        IF \E k \in 1..26 : UpperCase[k] = s[i]
        THEN LowerCase[CHOOSE k \in 1..26 : UpperCase[k] = s[i]]
        ELSE s[i]]

Truthy == {<<"t", "r", "u", "e">>, <<"y", "e", "s">>, <<"y">>, <<"1">>}

\* a number case that stores the parsed value as it is, also for an integer
NumberCase_Float(propType, f) ==
    IF ~f.ok THEN [ok |-> FALSE, err |-> "number", val |-> NullV]
    ELSE [ok |-> TRUE, err |-> "none", val |-> FloatV(f.n, f.d)]

\* case "number", "integer": f is what strconv.ParseFloat returned
NumberCase(propType, f) ==
    IF ~f.ok THEN [ok |-> FALSE, err |-> "number", val |-> NullV]
    ELSE IF propType = "integer"
    THEN [ok |-> TRUE, err |-> "none", val |-> IntV(Trunc(f.n, f.d))]
    ELSE [ok |-> TRUE, err |-> "none", val |-> FloatV(f.n, f.d)]

\* case "array": a is what json.Unmarshal into a slice returned
ArrayCase(a, input) ==
    IF a.ok THEN [ok |-> TRUE, err |-> "none", val |-> a.val]
    ELSE [ok |-> TRUE, err |-> "none", val |-> StringsV(SplitComma(input))]

\* case "object": o is what json.Unmarshal into a map returned
ObjectCase(o) ==
    IF o.ok THEN [ok |-> TRUE, err |-> "none", val |-> o.val]
    ELSE [ok |-> FALSE, err |-> "object", val |-> NullV]

\* the `switch propType` of collectToolParameters on a non-empty input:
\* the value stored, or the error returned
CoerceValue(propType, input) ==
    IF propType \in {"number", "integer"} THEN NumberCase(propType, ParseFloat(input))
    ELSE IF propType = "boolean"
    THEN [ok |-> TRUE, err |-> "none", val |-> BoolV(ToLower(input) \in Truthy)]
    ELSE IF propType = "array" THEN ArrayCase(UnmarshalSlice(input), input)
    ELSE IF propType = "object" THEN ObjectCase(UnmarshalMap(input))
    ELSE [ok |-> TRUE, err |-> "none", val |-> StrV(input)]

\* params[propName] = value
MapPut(m, k, v) == [x \in DOMAIN m \cup {k} |-> IF x = k THEN v ELSE m[x]]

\* ------------------------------------------------------------------ messages
\* strings.Contains
Contains(s, sub) == \E i \in 0..(Len(s) - Len(sub)) : SubSeq(s, i + 1, i + Len(sub)) = sub

\* the text the first case of handleToolCallError looks for
K_notFound == <<"n", "o", "t", " ", "f", "o", "u", "n", "d">>

K_parameter == <<"p", "a", "r", "a", "m", "e", "t", "e", "r">>

K_required == <<"r", "e", "q", "u", "i", "r", "e", "d">>

K_timeout == <<"t", "i", "m", "e", "o", "u", "t">>

K_session == <<"I", "n", "v", "a", "l", "i", "d", " ", "s", "e", "s", "s", "i", "o", "n", " ", "I", "D">>

\* the same phrase in lower case
K_sessionLower == <<"i", "n", "v", "a", "l", "i", "d", " ", "s", "e", "s", "s", "i", "o", "n", " ", "i", "d">>

\* a text none of the cases looks for
K_refused == <<"r", "e", "f", "u", "s", "e", "d">>

\* context.DeadlineExceeded.Error()
K_deadline ==
    <<"c", "o", "n", "t", "e", "x", "t", " ", "d", "e", "a", "d", "l", "i", "n", "e", " ", "e",
      "x", "c", "e", "e", "d", "e", "d">>

\* fmt.Errorf("failed to call tool: %w", err)
K_callPrefix ==
    <<"f", "a", "i", "l", "e", "d", " ", "t", "o", " ", "c", "a", "l", "l", " ", "t", "o", "o",
      "l", ":", " ">>

\* fmt.Errorf("failed to parse parameters JSON: %w", err)
K_parsePrefix ==
    <<"f", "a", "i", "l", "e", "d", " ", "t", "o", " ", "p", "a", "r", "s", "e", " ", "p", "a",
      "r", "a", "m", "e", "t", "e", "r", "s", " ", "J", "S", "O", "N", ":", " ">>

\* the start of the *json.UnmarshalTypeError text
K_unmarshal ==
    <<"j", "s", "o", "n", ":", " ", "c", "a", "n", "n", "o", "t", " ", "u", "n", "m", "a", "r",
      "s", "h", "a", "l">>

\* fmt.Errorf("required parameter '%s' cannot be empty", propName)
K_requiredPrefix ==
    <<"r", "e", "q", "u", "i", "r", "e", "d", " ", "p", "a", "r", "a", "m", "e", "t", "e", "r",
      " ", "'">>

K_requiredSuffix == <<"'", " ", "c", "a", "n", "n", "o", "t", " ", "b", "e", " ", "e", "m", "p", "t", "y">>

\* fmt.Errorf("invalid number for %s: %s", propName, input)
K_numberPrefix ==
    <<"i", "n", "v", "a", "l", "i", "d", " ", "n", "u", "m", "b", "e", "r", " ", "f", "o", "r",
      " ">>

\* fmt.Errorf("invalid JSON object for %s: %s", propName, input)
K_objectPrefix ==
    <<"i", "n", "v", "a", "l", "i", "d", " ", "J", "S", "O", "N", " ", "o", "b", "j", "e", "c",
      "t", " ", "f", "o", "r", " ">>

\* fmt.Errorf("invalid tool number: %s", input)
K_toolNumberPrefix ==
    <<"i", "n", "v", "a", "l", "i", "d", " ", "t", "o", "o", "l", " ", "n", "u", "m", "b", "e",
      "r", ":", " ">>

K_colon == <<":", " ">>

\* ------------------------------------------------------------------ results and failures
\* a content item of a CallToolResult: its Go type (mcp.TextContent,
\* mcp.ImageContent, mcp.AudioContent, or another) and its text or MIME type
Item(kind, data) == [kind |-> kind, data |-> data]

\* what CallTool returned: a result (IsError, Content) or an error (its text)
NoReply == [kind |-> "none", isError |-> FALSE, content |-> <<>>, msg |-> <<>>]

ResultReply(isError, content) == [NoReply EXCEPT !.kind = "result", !.isError = isError, !.content = content]

ErrorReply(msg) == [NoReply EXCEPT !.kind = "error", !.msg = msg]

\* what was printed about a call.  For a result: the header and one block per
\* content item, with its "Content i:" label (0 when there is none) and the
\* line the switch on its type printed (<<>> when it printed nothing).  For a
\* failure: the header, the case of handleToolCallError that was taken,
\* whether a remediation line was printed, whether the text of the error was
\* printed, and that text.
NoShown ==
    [kind |-> "none", header |-> "none", blocks |-> <<>>, category |-> "none",
     hint |-> FALSE, original |-> FALSE, msg |-> <<>>]

\* the switch on the content's type in formatToolResult
ItemLine(c, verbose) ==
    IF c.kind = "text" THEN <<"text", c.data>>
    ELSE IF c.kind = "image" THEN (IF verbose THEN <<"Image", c.data>> ELSE <<>>)
    ELSE IF c.kind = "audio" THEN (IF verbose THEN <<"Audio", c.data>> ELSE <<>>)
    ELSE IF verbose THEN <<"Unknown content type", c.kind>> ELSE <<>>

\* formatToolResult
formatToolResult(result, verbose) ==
    [NoShown EXCEPT
        !.kind = "result",
        !.header = IF result.isError THEN "Tool call failed" ELSE "Tool call succeeded",
        !.blocks = [i \in DOMAIN result.content |->
                       [label |-> IF Len(result.content) > 1 THEN i ELSE 0,
                        line |-> ItemLine(result.content[i], verbose)]]]

\* what handleToolCallError prints after its header
Report(category, hint, original, errStr) ==
    [NoShown EXCEPT !.kind = "failure", !.header = "Failed to call tool",
                    !.category = category, !.hint = hint, !.original = original,
                    !.msg = errStr]

\* a handleToolCallError that tests "parameter" before "parameter" and "required"
handleToolCallError_ParameterFirst(errStr) ==
    IF Contains(errStr, K_notFound) THEN Report("NotFound", TRUE, FALSE, errStr)
    ELSE IF Contains(errStr, K_parameter) THEN Report("ParameterValidation", TRUE, TRUE, errStr)
    ELSE IF Contains(errStr, K_parameter) /\ Contains(errStr, K_required)
    THEN Report("ParameterValidationRequiredMissing", TRUE, TRUE, errStr)
    ELSE IF Contains(errStr, K_timeout) THEN Report("Timeout", TRUE, FALSE, errStr)
    ELSE IF Contains(errStr, K_session) THEN Report("SessionExpired", TRUE, FALSE, errStr)
    ELSE Report("Unknown", FALSE, TRUE, errStr)

\* handleToolCallError: the cases of its switch, named as the categories they stand for
handleToolCallError(errStr) ==
    IF Contains(errStr, K_notFound) THEN Report("NotFound", TRUE, FALSE, errStr)
    ELSE IF Contains(errStr, K_parameter) /\ Contains(errStr, K_required)
    THEN Report("ParameterValidationRequiredMissing", TRUE, TRUE, errStr)
    ELSE IF Contains(errStr, K_parameter) THEN Report("ParameterValidation", TRUE, TRUE, errStr)
    ELSE IF Contains(errStr, K_timeout) THEN Report("Timeout", TRUE, FALSE, errStr)
    ELSE IF Contains(errStr, K_session) THEN Report("SessionExpired", TRUE, FALSE, errStr)
    ELSE Report("Unknown", FALSE, TRUE, errStr)

\* the loop of interactiveModeWithTimeout: fmt.Printf("Error: %v\n", err)
ReplError(errStr) ==
    [NoShown EXCEPT !.kind = "failure", !.header = "Error", !.original = TRUE, !.msg = errStr]

\* fmt.Errorf("failed to call tool: %w", err)
WrapCallError(msg) == K_callPrefix \o msg

\* what the loop prints when callToolDirectlyWithTimeout returned: its error, if any
Printed(result, errStr) == IF result = "error" THEN ReplError(errStr) ELSE NoShown

\* the error parseToolParameters returns
ParseErrorText == K_parsePrefix \o K_unmarshal

\* the error collectToolParameters returns
CollectErrorText(err, propName, input) ==
    IF err = "required" THEN K_requiredPrefix \o propName \o K_requiredSuffix
    ELSE IF err = "number" THEN K_numberPrefix \o propName \o K_colon \o input
    ELSE IF err = "object" THEN K_objectPrefix \o propName \o K_colon \o input
    ELSE ParseErrorText

\* the results a server returns to CallTool
ResultSamples ==
    {ResultReply(FALSE, <<Item("text", "Hello")>>),
     ResultReply(TRUE, <<Item("text", "boom")>>),
     ResultReply(FALSE, <<Item("text", "see"), Item("image", "image/png")>>),
     ResultReply(FALSE, <<Item("audio", "audio/wav"), Item("resource", "")>>)}

\* the errors CallTool returns before the deadline of its context
ErrorSamples == {ErrorReply(K_notFound), ErrorReply(K_sessionLower), ErrorReply(K_refused)}

\* ------------------------------------------------------------------ state
VARIABLES
    pc,          \* where the process is: a step of main, a state of the session, or "done"
    flags,       \* the parsed command line
    exitCode,    \* -1 while running, then the exit code of the process
    pathRun,     \* the execution paths main's switch has entered
    toolsCap,    \* whether the server announced the tools capability
    bounded,     \* <<operation, duration>>: the client operations issued and the flag that bounded each
    scope,       \* the context the current path or call runs under
    eof,         \* standard input has ended
    attempts,    \* call attempts started in the session
    cur,         \* the call attempt of the current turn of the session loop
    prev,        \* a summary of the attempt of the turn before, if that turn made one
    request,     \* the CallToolRequest handed to CallTool in the current attempt
    submits,     \* the number of CallTool invocations
    callScopes,  \* the ids of the contexts CallTool was invoked under
    out,         \* the last thing printed
    line,        \* the line last read at the command prompt or at the tool-number prompt, trimmed
    reply,       \* what CallTool returned to the last call
    shown,       \* what was printed about the result or the failure of the last call
    asked        \* where the body of the parameter loop is taken on its own: the property
                 \* it runs for, the required list, the answer read, and what the prompt showed

vars == <<pc, flags, exitCode, pathRun, toolsCap, bounded, scope, eof, attempts,
          cur, prev, request, submits, callScopes, out, line, reply, shown, asked>>

callVars == <<cur, prev, request, submits, callScopes, attempts>>

ioVars == <<line, reply, shown>>

\* no parameter loop taken on its own
NoAsked ==
    [prop |-> PropS(<<>>, FALSE, ""), required |-> <<>>, input |-> <<>>,
     shownType |-> "none", marked |-> "none"]

\* ------------------------------------------------------------------ contexts
NoScope == [id |-> 0, dur |-> "none", left |-> 0, active |-> FALSE]

TicksOf(dur) == IF dur = "timeout" THEN TimeoutTicks ELSE CallTimeoutTicks

\* context.WithTimeout(context.Background(), d): a new context with its own deadline
WithTimeout(old, dur) == [id |-> old.id + 1, dur |-> dur, left |-> TicksOf(dur), active |-> TRUE]

\* callToolDirectlyWithTimeout made to keep one context for the whole session
CallScopeShared(old, timeout) ==
    IF old.id # 0 THEN [old EXCEPT !.active = TRUE] ELSE WithTimeout(old, timeout)

\* callToolDirectlyWithTimeout: ctx, cancel := context.WithTimeout(context.Background(), timeout)
CallScope(old, timeout) == WithTimeout(old, timeout)

\* defer cancel()
Release(sc) == [sc EXCEPT !.active = FALSE, !.left = 0]

\* the duration main hands to interactiveModeWithTimeout as `timeout`
InteractiveTimeoutArg == "callTimeout"

\* ------------------------------------------------------------------ call attempts
\* A call attempt: the tool (idx, 0 for none), how it was selected (via), the
\* order the range over the properties takes, the position in it, whether the
\* current property is at its second prompt, the map collected so far, and
\* the return of collectToolParameters (result, err).  prompts, freeform,
\* given, json and cut record what was shown and read: the property prompts
\* in order, the number of free-form prompts, the properties that got a
\* non-empty answer, the text read at the free-form prompt, and whether
\* standard input ended during the collection.
NoCall ==
    [idx |-> 0, via |-> "none", order |-> <<>>, pos |-> 0, second |-> FALSE,
     params |-> EmptyMap, prompts |-> <<>>, freeform |-> 0, given |-> {}, json |-> <<>>,
     cut |-> FALSE, result |-> "none", err |-> "none"]

NoPrev == [idx |-> 0, via |-> "none", order |-> <<>>]

\* what is remembered of an attempt: the tool, how it was selected and the
\* order in which its properties came up
Summary(c) == [idx |-> c.idx, via |-> c.via, order |-> c.order]

NoRequest == [name |-> "", args |-> EmptyMap]

Finish == pc' = "done" /\ exitCode' = 0

\* a fatal path that ends the process with exit code 0
Fatal_Zero == pc' = "done" /\ exitCode' = 0

Fatal == pc' = "done" /\ exitCode' = 1

\* a callToolDirectly that hands CallTool a request without the collected map
Submit_NoArguments(c, sc) ==
    /\ cur' = [c EXCEPT !.result = "ok"]
    /\ request' = [name |-> Tools[c.idx].name, args |-> EmptyMap]
    /\ submits' = submits + 1
    /\ callScopes' = callScopes \cup {sc.id}
    /\ bounded' = bounded \cup {<<"callTool", sc.dur>>}
    /\ scope' = sc
    /\ pc' = "Calling"
    /\ out' = "calling"
    /\ UNCHANGED exitCode

\* a callToolDirectly that starts CallTool and returns to the prompt without
\* waiting for it
Submit_Detached(c, sc) ==
    /\ cur' = [c EXCEPT !.result = "ok"]
    /\ request' = [name |-> Tools[c.idx].name, args |-> c.params]
    /\ submits' = submits + 1
    /\ callScopes' = callScopes \cup {sc.id}
    /\ bounded' = bounded \cup {<<"callTool", sc.dur>>}
    /\ scope' = sc
    /\ pc' = "Listening"
    /\ out' = "calling"
    /\ UNCHANGED exitCode

\* callToolDirectly after collectToolParameters returned (c.params, nil):
\* the request is built from the tool and the collected map and handed to CallTool
Submit(c, sc) ==
    /\ cur' = [c EXCEPT !.result = "ok"]
    /\ request' = [name |-> Tools[c.idx].name, args |-> c.params]
    /\ submits' = submits + 1
    /\ callScopes' = callScopes \cup {sc.id}
    /\ bounded' = bounded \cup {<<"callTool", sc.dur>>}
    /\ scope' = sc
    /\ pc' = "Calling"
    /\ out' = "calling"
    /\ UNCHANGED exitCode

\* an error of collectToolParameters that ends the process
Abort_Fatal(c, err, sc) ==
    /\ cur' = [c EXCEPT !.result = "error", !.err = err]
    /\ scope' = Release(sc)
    /\ Fatal
    /\ out' = "Error"
    /\ UNCHANGED <<request, submits, callScopes, bounded>>

\* collectToolParameters returned (nil, err): callToolDirectly returns err, the
\* deferred cancel runs and the loop prints "Error: ..."
Abort(c, err, sc) ==
    /\ cur' = [c EXCEPT !.result = "error", !.err = err]
    /\ scope' = Release(sc)
    /\ pc' = "Listening"
    /\ out' = "Error"
    /\ UNCHANGED <<request, submits, callScopes, bounded, exitCode>>

\* collectToolParameters up to its first read of standard input
BeginCollect(idx, via, sc) ==
    LET schema == Tools[idx].schema
        c0 == [NoCall EXCEPT !.idx = idx, !.via = via, !.result = "collecting"]
    IN  IF schema.kind \in {"null", "empty"}
        THEN Submit(c0, sc)
        ELSE IF schema.kind = "unparsable"
        THEN /\ cur' = [c0 EXCEPT !.freeform = 1]
             /\ scope' = sc
             /\ pc' = "FreeForm"
             /\ out' = "prompt"
             /\ request' = NoRequest
             /\ UNCHANGED <<submits, callScopes, bounded, exitCode>>
        ELSE IF schema.props = <<>>
        THEN Submit(c0, sc)
        ELSE \E order \in Orders(schema) :
                /\ cur' = [c0 EXCEPT !.order = order, !.pos = 1, !.prompts = <<order[1]>>]
                /\ scope' = sc
                /\ pc' = "Collecting"
                /\ out' = "prompt"
                /\ request' = NoRequest
                /\ UNCHANGED <<submits, callScopes, bounded, exitCode>>

\* callToolDirectlyWithTimeout(mcpClient, &tool, scanner, timeout, verbose)
StartCall(idx, via) ==
    /\ attempts < MaxCalls
    /\ attempts' = attempts + 1
    /\ prev' = Summary(cur)
    /\ BeginCollect(idx, via, CallScope(scope, InteractiveTimeoutArg))

\* a turn of the loop that makes no call attempt
NoAttempt ==
    /\ cur' = NoCall
    /\ prev' = NoPrev
    /\ request' = NoRequest
    /\ UNCHANGED <<scope, bounded, submits, callScopes, attempts>>

\* a branch of the loop that prints and then leaves the loop
Idle_Leave(msg) ==
    /\ out' = msg
    /\ Finish
    /\ NoAttempt

\* a branch of the loop that prints and reads the next command
Idle(msg) ==
    /\ out' = msg
    /\ pc' = "Listening"
    /\ NoAttempt
    /\ UNCHANGED exitCode

ValidIndex(a) == a.ok /\ a.n > 0 /\ a.n <= Len(Tools)

\* ------------------------------------------------------------------ main
ToolNames == {"", "echo", "nosuch"}

Init ==
    /\ pc = "start"
    /\ flags \in {f \in [url : BOOLEAN, listOnly : BOOLEAN, interactive : BOOLEAN,
                         callTool : ToolNames, toolParams : ParamStrings,
                         verbose : BOOLEAN] :
                    f.callTool = "" => f.toolParams \in {P_default, P_bad}}
    /\ exitCode = -1
    /\ pathRun = {}
    /\ toolsCap = TRUE
    /\ bounded = {}
    /\ scope = NoScope
    /\ eof = FALSE
    /\ attempts = 0
    /\ cur = NoCall
    /\ prev = NoPrev
    /\ request = NoRequest
    /\ submits = 0
    /\ callScopes = {}
    /\ out = "none"
    /\ line = <<>>
    /\ reply = NoReply
    /\ shown = NoShown
    /\ asked = NoAsked

\* main up to the banner: the -url check and validateInputs
Main_Validate ==
    /\ pc = "start"
    /\ IF ~flags.url
       THEN Fatal /\ out' = "usage"
       ELSE IF validateInputs(flags.callTool, flags.toolParams)
       THEN Fatal /\ out' = "Input validation failed"
       ELSE pc' = "create" /\ out' = "banner" /\ UNCHANGED exitCode
    /\ UNCHANGED <<flags, asked, pathRun, toolsCap, bounded, scope, eof, callVars, ioVars>>

\* the transport switch, createSSEClient / createHTTPClient and mcpClient.Start
Main_Connect ==
    /\ pc = "create"
    /\ \E r \in {"ok", "unsupported", "createFailed", "startFailed"} :
          IF r = "ok"
          THEN pc' = "init" /\ out' = "started" /\ UNCHANGED exitCode
          ELSE Fatal /\ out' = r
    /\ UNCHANGED <<flags, asked, pathRun, toolsCap, bounded, scope, eof, callVars, ioVars>>

\* performInitialization under initCtx (WithTimeout(*timeout))
Main_Initialize ==
    /\ pc = "init"
    /\ bounded' = bounded \cup {<<"initialize", "timeout">>}
    /\ \E ok \in BOOLEAN, caps \in BOOLEAN :
          IF ok
          THEN pc' = "dispatch" /\ toolsCap' = caps /\ out' = "initialized" /\ UNCHANGED exitCode
          ELSE Fatal /\ out' = "Failed to initialize" /\ UNCHANGED toolsCap
    /\ UNCHANGED <<flags, asked, pathRun, scope, eof, callVars, ioVars>>

\* a switch that tests -call before -list-only
ModeOf_CallFirst(f) ==
    IF f.callTool # "" THEN "directCall"
    ELSE IF f.listOnly THEN "listOnly"
    ELSE IF f.interactive THEN "interactive"
    ELSE "discovery"

\* the `switch` of main: the case that runs
ModeOf(f) ==
    IF f.listOnly THEN "listOnly"
    ELSE IF f.callTool # "" THEN "directCall"
    ELSE IF f.interactive THEN "interactive"
    ELSE "discovery"

\* the duration of the context main creates in each case
ModeTimeout(mode) == IF mode = "directCall" THEN "callTimeout" ELSE "timeout"

Main_Dispatch ==
    /\ pc = "dispatch"
    /\ LET mode == ModeOf(flags)
       IN  /\ pc' = mode
           /\ pathRun' = pathRun \cup {mode}
           /\ scope' = IF mode = "interactive" THEN scope
                       ELSE WithTimeout(scope, ModeTimeout(mode))
    /\ UNCHANGED <<flags, asked, exitCode, toolsCap, bounded, eof, callVars, out, ioVars>>

\* listToolsOnly(ctx, ...)
ListToolsOnly ==
    /\ pc = "listOnly"
    /\ IF ~toolsCap
       THEN Finish /\ out' = "Tools capability not supported" /\ UNCHANGED bounded
       ELSE /\ bounded' = bounded \cup {<<"listTools", scope.dur>>}
            /\ \E ok \in BOOLEAN :
                  IF ok THEN Finish /\ out' = "tools" ELSE Fatal /\ out' = "Failed to list tools"
    /\ UNCHANGED <<flags, asked, pathRun, toolsCap, scope, eof, callVars, ioVars>>

\* testServerCapabilities(ctx, ...): testTools, testResources, testPrompts; a
\* failure of any of them is a warning
TestServerCapabilities ==
    /\ pc = "discovery"
    /\ \E res \in BOOLEAN, prm \in BOOLEAN :
          bounded' = bounded
                     \cup (IF toolsCap THEN {<<"listTools", scope.dur>>} ELSE {})
                     \cup (IF res THEN {<<"listResources", scope.dur>>,
                                        <<"listResourceTemplates", scope.dur>>} ELSE {})
                     \cup (IF prm THEN {<<"listPrompts", scope.dur>>} ELSE {})
    /\ Finish
    /\ out' = "capabilities"
    /\ UNCHANGED <<flags, asked, pathRun, toolsCap, scope, eof, callVars, ioVars>>

\* ------------------------------------------------------------------ direct call
\* callSpecificTool up to CallTool
CallSpecificTool ==
    /\ pc = "directCall"
    /\ LET r == parseToolParameters(flags.toolParams)
       IN  IF ~r.ok
           THEN /\ Fatal
                /\ out' = "Failed to call tool"
                /\ shown' = handleToolCallError(ParseErrorText)
                /\ UNCHANGED <<request, submits, callScopes, bounded>>
           ELSE /\ request' = [name |-> flags.callTool, args |-> r.map]
                /\ submits' = submits + 1
                /\ callScopes' = callScopes \cup {scope.id}
                /\ bounded' = bounded \cup {<<"callTool", scope.dur>>}
                /\ pc' = "directCalling"
                /\ out' = "calling"
                /\ UNCHANGED <<exitCode, shown>>
    /\ UNCHANGED <<flags, asked, pathRun, toolsCap, scope, eof, cur, prev, attempts, line, reply>>

\* what CallTool may return: a result, a result flagged IsError, or an error;
\* once the deadline of its context has passed, the deadline error
CallOutcomes(sc) ==
    IF sc.left = 0 THEN {ErrorReply(K_deadline)} ELSE ResultSamples \cup ErrorSamples

\* the header formatToolResult prints
ResultHeader(o) == IF o.isError THEN "Tool call failed" ELSE "Tool call succeeded"

\* a callSpecificTool that also returns an error for a result flagged IsError
CallToolFailed_IsError(o) == o.kind = "error" \/ o.isError

\* `err != nil` after CallTool in callSpecificTool: the only test made on what
\* CallTool returned; IsError of the result is read by formatToolResult alone
CallToolFailed(o) == o.kind = "error"

\* callSpecificTool from the return of CallTool, and main's handling of its error
CallSpecificTool_Return ==
    /\ pc = "directCalling"
    /\ \E o \in CallOutcomes(scope) :
          /\ reply' = o
          /\ IF ~CallToolFailed(o)
             THEN /\ Finish
                  /\ out' = ResultHeader(o)
                  /\ shown' = formatToolResult(o, flags.verbose)
             ELSE /\ Fatal
                  /\ out' = "Failed to call tool"
                  /\ shown' = handleToolCallError(WrapCallError(o.msg))
    /\ scope' = Release(scope)
    /\ UNCHANGED <<flags, asked, pathRun, toolsCap, bounded, eof, callVars, line>>

\* ------------------------------------------------------------------ interactive session
\* interactiveModeWithTimeout up to the loop: the capability check and ListTools
\* under listCtx (WithTimeout(timeout))
Interactive_Begin ==
    /\ pc = "interactive"
    /\ IF ~toolsCap
       THEN Finish /\ out' = "Tools capability not supported" /\ UNCHANGED bounded
       ELSE /\ bounded' = bounded \cup {<<"listTools", InteractiveTimeoutArg>>}
            /\ \E r \in {"tools", "none", "error"} :
                  IF r = "error" THEN Fatal /\ out' = "Interactive mode failed"
                  ELSE IF r = "none" THEN Finish /\ out' = "No tools available"
                  ELSE pc' = "Listening" /\ out' = "Type 'help' for commands" /\ UNCHANGED exitCode
    /\ UNCHANGED <<flags, asked, pathRun, toolsCap, scope, eof, callVars, ioVars>>

ExitWords == {<<"e", "x", "i", "t">>, <<"q", "u", "i", "t">>, <<"q">>}

HelpWords == {<<"h", "e", "l", "p">>, <<"h">>, <<"?">>}

ListWords == {<<"l", "i", "s", "t">>, <<"l", "s">>, <<"l">>}

CallWords == {<<"c", "a", "l", "l">>, <<"c">>}

\* one turn of the loop of interactiveModeWithTimeout on a line read
HandleCommand(text) ==
    LET input == TrimSpace(text)
        parts == Fields(input)
        command == parts[1]
        args == Tail(parts)
    IN  IF input = <<>> THEN Idle(out)
        ELSE IF command \in ExitWords
        THEN Finish /\ out' = "Exiting interactive mode" /\ NoAttempt
        ELSE IF command \in HelpWords THEN Idle("help")
        ELSE IF command \in ListWords THEN Idle("tools")
        ELSE IF command \in CallWords
        THEN IF args # <<>>
             THEN IF ValidIndex(Atoi(args[1]))
                  THEN StartCall(Atoi(args[1]).n, "call")
                  ELSE Idle("Invalid tool number")
             ELSE /\ pc' = "AwaitingToolSelection"
                  /\ out' = "Enter tool number"
                  /\ NoAttempt
                  /\ UNCHANGED exitCode
        ELSE IF ValidIndex(Atoi(command))
        THEN StartCall(Atoi(command).n, "bare")
        ELSE Idle("Unknown command")

\* the loop of interactiveModeWithTimeout: scanner.Scan() and the command
\* switch.  When Scan() is false the loop is left: scanner.Err() is nil at the
\* end of the input, and an error when reading failed, which main makes fatal.
Repl_ReadCommand ==
    /\ pc = "Listening"
    /\ \/ /\ eof' = TRUE
          /\ \/ Finish /\ out' = "Finished"
             \/ Fatal /\ out' = "Interactive mode failed"
          /\ NoAttempt
          /\ line' = <<>>
       \/ /\ ~eof
          /\ UNCHANGED eof
          /\ \E text \in CommandLines : HandleCommand(text) /\ line' = TrimSpace(text)
    /\ reply' = NoReply
    /\ shown' = NoShown
    /\ UNCHANGED <<flags, asked, pathRun, toolsCap>>

\* a tool-number prompt that only the word cancel leaves
IsCancel_WordOnly(input) == input = L_cancel

\* if input == "cancel" || input == ""
IsCancel(input) == input = L_cancel \/ input = <<>>

\* callToolInteractiveWithTimeout from its read of the tool number
Repl_ReadSelection ==
    /\ pc = "AwaitingToolSelection"
    /\ \/ /\ eof' = TRUE
          /\ Idle(out)
          /\ line' = <<>>
          /\ UNCHANGED shown
       \/ /\ ~eof
          /\ UNCHANGED eof
          /\ \E text \in SelectionLines :
                LET input == TrimSpace(text)
                IN  /\ line' = input
                    /\ IF IsCancel(input)
                       THEN Idle("cancelled") /\ UNCHANGED shown
                       ELSE IF ~ValidIndex(Atoi(input))
                       THEN Idle("Error") /\ shown' = ReplError(K_toolNumberPrefix \o input)
                       ELSE StartCall(Atoi(input).n, "guided") /\ UNCHANGED shown
    /\ UNCHANGED <<flags, asked, pathRun, toolsCap, reply>>

\* a collection that, after the loop, fails when a name listed in "required"
\* has no value
Advance_CheckRequired(c, sc) ==
    IF c.pos = Len(c.order)
    THEN IF RequiredSet(Tools[c.idx].schema) \subseteq DOMAIN c.params
         THEN Submit([c EXCEPT !.pos = @ + 1, !.second = FALSE], sc)
         ELSE Abort(c, "required", sc)
    ELSE /\ cur' = [c EXCEPT !.pos = @ + 1, !.second = FALSE,
                             !.prompts = Append(@, c.order[c.pos + 1])]
         /\ pc' = "Collecting"
         /\ out' = "prompt"
         /\ UNCHANGED <<scope, request, submits, callScopes, bounded, exitCode>>

\* the end of one turn of the parameter loop: the next property is prompted, or
\* collectToolParameters returns (params, nil) and the call is made
Advance(c, sc) ==
    IF c.pos = Len(c.order)
    THEN Submit([c EXCEPT !.pos = @ + 1, !.second = FALSE], sc)
    ELSE /\ cur' = [c EXCEPT !.pos = @ + 1, !.second = FALSE,
                             !.prompts = Append(@, c.order[c.pos + 1])]
         /\ pc' = "Collecting"
         /\ out' = "prompt"
         /\ UNCHANGED <<scope, request, submits, callScopes, bounded, exitCode>>

\* a required property that is prompted again for every empty answer
OnEmptyRequired_Loop(c, sc) ==
    /\ cur' = [c EXCEPT !.second = TRUE, !.prompts = Append(@, c.order[c.pos])]
    /\ pc' = "Collecting"
    /\ out' = "prompt"
    /\ UNCHANGED <<scope, request, submits, callScopes, bounded, exitCode>>

\* an empty answer to a required property: one more prompt, then the error
OnEmptyRequired(c, sc) ==
    IF ~c.second
    THEN /\ cur' = [c EXCEPT !.second = TRUE, !.prompts = Append(@, c.order[c.pos])]
         /\ pc' = "Collecting"
         /\ out' = "prompt"
         /\ UNCHANGED <<scope, request, submits, callScopes, bounded, exitCode>>
    ELSE Abort(c, "required", sc)

\* an optional property whose empty answer is stored as an empty string
OnEmptyOptional_Stored(c, sc) ==
    Advance([c EXCEPT !.params = MapPut(@, c.order[c.pos], StrV(<<>>))], sc)

\* an empty answer to an optional property: `continue`
OnEmptyOptional(c, sc) == Advance(c, sc)

\* after the switch on the property's type: v is the value or the error
OnValue(c, sc, v) ==
    IF ~v.ok THEN Abort(c, v.err, sc)
    ELSE Advance([c EXCEPT !.params = MapPut(@, c.order[c.pos], v.val)], sc)

\* a non-empty answer: the switch on the property's type
OnAnswer(c, sc, input) ==
    OnValue(c, sc, CoerceValue(PropType(PropOf(Tools[c.idx].schema, c.order[c.pos])), input))

\* collectToolParameters from a read of standard input at a property prompt
Collect_ReadAnswer ==
    /\ pc = "Collecting"
    /\ \/ /\ eof' = TRUE
          /\ Submit([cur EXCEPT !.cut = TRUE], scope)
          /\ UNCHANGED shown
       \/ /\ ~eof
          /\ UNCHANGED eof
          /\ \E text \in AnswerLines :
                LET input == TrimSpace(text)
                    name == cur.order[cur.pos]
                IN  /\ IF input = <<>>
                       THEN IF name \in RequiredSet(Tools[cur.idx].schema)
                            THEN OnEmptyRequired(cur, scope)
                            ELSE OnEmptyOptional(cur, scope)
                       ELSE OnAnswer([cur EXCEPT !.given = @ \cup {name}], scope, input)
                    /\ shown' = Printed(cur'.result, CollectErrorText(cur'.err, name, input))
    /\ UNCHANGED <<flags, asked, pathRun, toolsCap, prev, attempts, line, reply>>

\* collectToolParameters after the JSON prompt was read: r is what
\* parseToolParameters returned for a non-empty input
OnJSON(c, sc, input, r) ==
    IF input = <<>> THEN Submit(c, sc)
    ELSE IF r.ok THEN Submit([c EXCEPT !.params = r.map, !.json = input], sc)
    ELSE Abort([c EXCEPT !.json = input], "json", sc)

\* collectToolParameters from its read at the free-form JSON prompt
FreeForm_Read ==
    /\ pc = "FreeForm"
    /\ \/ /\ eof' = TRUE
          /\ Submit([cur EXCEPT !.cut = TRUE], scope)
          /\ UNCHANGED shown
       \/ /\ ~eof
          /\ UNCHANGED eof
          /\ \E text \in JSONLines :
                /\ OnJSON(cur, scope, TrimSpace(text), parseToolParameters(TrimSpace(text)))
                /\ shown' = Printed(cur'.result, ParseErrorText)
    /\ UNCHANGED <<flags, asked, pathRun, toolsCap, prev, attempts, line, reply>>

\* callToolDirectly from the return of CallTool, the deferred cancel of
\* callToolDirectlyWithTimeout, and the loop's "Error: ..."
Call_Return ==
    /\ pc = "Calling"
    /\ \E o \in CallOutcomes(scope) :
          /\ reply' = o
          /\ IF o.kind = "result"
             THEN out' = ResultHeader(o) /\ shown' = formatToolResult(o, flags.verbose)
             ELSE out' = "Error" /\ shown' = ReplError(WrapCallError(o.msg))
    /\ scope' = Release(scope)
    /\ pc' = "Listening"
    /\ UNCHANGED <<flags, asked, exitCode, pathRun, toolsCap, bounded, eof, callVars, line>>

\* time passes while the process is blocked on standard input or on CallTool
Tick ==
    /\ pc \in {"Collecting", "FreeForm", "Calling", "directCalling"}
    /\ scope.active
    /\ scope.left > 0
    /\ scope' = [scope EXCEPT !.left = @ - 1]
    /\ UNCHANGED <<pc, flags, asked, exitCode, pathRun, toolsCap, bounded, eof, callVars, out, ioVars>>

Next ==
    \/ Main_Validate
    \/ Main_Connect
    \/ Main_Initialize
    \/ Main_Dispatch
    \/ ListToolsOnly
    \/ TestServerCapabilities
    \/ CallSpecificTool
    \/ CallSpecificTool_Return
    \/ Interactive_Begin
    \/ Repl_ReadCommand
    \/ Repl_ReadSelection
    \/ Collect_ReadAnswer
    \/ FreeForm_Read
    \/ Call_Return
    \/ Tick

Spec == Init /\ [][Next]_vars

\* ------------------------------------------------------------------ handleToolCallError on its own
\* the phrases an error text is made of: the ones the switch looks for, the
\* session phrase in lower case, and one it does not look for
Words == {K_notFound, K_parameter, K_required, K_timeout, K_session, K_sessionLower, K_refused}

WordSeqs == UNION {[1..n -> Words] : n \in 0..MaxTokens}

RECURSIVE JoinWords(_)
JoinWords(ws) ==
    IF ws = <<>> THEN <<>>
    ELSE IF Len(ws) = 1 THEN ws[1]
    ELSE ws[1] \o <<" ">> \o JoinWords(Tail(ws))

\* err.Error() for the errors handed to handleToolCallError
Messages == {JoinWords(ws) : ws \in WordSeqs}

InitClassify ==
    /\ pc = "classify"
    /\ flags = [url |-> TRUE, listOnly |-> FALSE, interactive |-> FALSE, callTool |-> "echo",
                toolParams |-> P_default, verbose |-> TRUE]
    /\ exitCode = -1
    /\ pathRun = {"directCall"}
    /\ toolsCap = TRUE
    /\ bounded = {}
    /\ scope = NoScope
    /\ eof = FALSE
    /\ attempts = 0
    /\ cur = NoCall
    /\ prev = NoPrev
    /\ request = NoRequest
    /\ submits = 0
    /\ callScopes = {}
    /\ out = "none"
    /\ line = <<>>
    /\ reply \in {ErrorReply(m) : m \in Messages}
    /\ shown = NoShown
    /\ asked = NoAsked

\* handleToolCallError(err, toolName)
Classify_Apply ==
    /\ pc = "classify"
    /\ pc' = "classified"
    /\ out' = "Failed to call tool"
    /\ shown' = handleToolCallError(reply.msg)
    /\ UNCHANGED <<flags, asked, exitCode, pathRun, toolsCap, bounded, scope, eof, callVars, line, reply>>

NextClassify == Classify_Apply

SpecClassify == InitClassify /\ [][NextClassify]_vars

\* ------------------------------------------------------------------ the parameter loop on its own
\* what the operator answers at the prompt of a property
T_minus == <<"-", "7", ".", "9">>

T_7x == <<"7", "x">>

T_ab == <<"[", "\"", "a", "\"", ",", "\"", "b", "\"", "]">>

T_abc == <<"a", ",", "b", ",", "c">>

T_true == <<"t", "r", "u", "e">>

T_YES == <<"Y", "E", "S">>

T_no == <<"n", "o">>

CoerceInputs ==
    {A_Hello, A_7, A_7p5, T_minus, T_7x, A_obj, A_arr, A_null, T_ab, T_abc, T_true, T_YES,
     T_no, L_1}

\* the property schemas: the six types, a type that is none of them, and a
\* "type" that is missing or no string
AskedProps ==
    {PropS(N_x, TRUE, ty) : ty \in {"string", "number", "integer", "boolean", "array", "object",
                                    "date"}}
        \cup {PropS(N_x, FALSE, "")}

\* the "required" lists
AskedRequired == {<<>>, <<ReqS(N_x)>>, <<ReqOther, ReqS(N_ghost)>>}

InitCoerce ==
    /\ pc = "asking"
    /\ flags = [url |-> TRUE, listOnly |-> FALSE, interactive |-> TRUE, callTool |-> "",
                toolParams |-> P_default, verbose |-> TRUE]
    /\ exitCode = -1
    /\ pathRun = {"interactive"}
    /\ toolsCap = TRUE
    /\ bounded = {}
    /\ scope = NoScope
    /\ eof = FALSE
    /\ attempts = 1
    /\ cur = [NoCall EXCEPT !.result = "collecting"]
    /\ prev = NoPrev
    /\ request = NoRequest
    /\ submits = 0
    /\ callScopes = {}
    /\ out = "prompt"
    /\ line = <<>>
    /\ reply = NoReply
    /\ shown = NoShown
    /\ asked \in {[NoAsked EXCEPT !.prop = p, !.required = r, !.input = i] :
                     p \in AskedProps, r \in AskedRequired, i \in CoerceInputs}

\* after the switch on the property's type, for the property `name`: v is the
\* value stored in params, or the error returned with a nil map
Stored(c, name, v) ==
    IF v.ok
    THEN [c EXCEPT !.params = MapPut(@, name, v.val), !.given = {name}, !.prompts = <<name>>,
                   !.result = "ok"]
    ELSE [c EXCEPT !.params = EmptyMap, !.prompts = <<name>>, !.result = "error", !.err = v.err]

\* the body of the parameter loop for one property and a non-empty answer:
\* propType, the [required] or [optional] mark, the prompt, the switch
Coerce_Apply ==
    /\ pc = "asking"
    /\ pc' = "asked"
    /\ asked' = [asked EXCEPT
                    !.shownType = PropType(asked.prop),
                    !.marked = IF asked.prop.name \in RequiredSet([required |-> asked.required])
                               THEN "required" ELSE "optional"]
    /\ cur' = Stored(cur, asked.prop.name, CoerceValue(PropType(asked.prop), asked.input))
    /\ UNCHANGED <<flags, exitCode, pathRun, toolsCap, bounded, scope, eof, attempts, prev,
                   request, submits, callScopes, out, line, reply, shown>>

NextCoerce == Coerce_Apply

SpecCoerce == InitCoerce /\ [][NextCoerce]_vars

\* ------------------------------------------------------------------ properties
\* the schema of the tool of the current attempt
CurSchema == Tools[cur.idx].schema

\* the properties the schema declares that its required list names
RequiredProps(schema) == RequiredSet(schema) \cap PropNames(schema)

\* how many times a property was prompted
Count(name, prompts) == Cardinality({i \in DOMAIN prompts : prompts[i] = name})

\* the names a schema declares, in the order it declares them
DeclaredOrder(schema) == [i \in DOMAIN schema.props |-> schema.props[i].name]

\* C1: collectToolParameters never returns a partial set as a success: when
\* it returns without error (and the call is made), the set holds a value for
\* every declared property that is required, also when the input ended early.
C1_NoPartialSuccess ==
    (cur.idx # 0 /\ cur.result = "ok")
        => \A name \in RequiredProps(CurSchema) : name \in DOMAIN cur.params

\* C2: an empty answer to a required property is followed by one more prompt
\* for it and never by a third; a second prompt is only ever shown for a
\* required property; the collection never moves past a required property
\* without a non-empty answer; and after the second empty answer the attempt
\* has ended with the required-missing error and no request was handed to
\* CallTool.
C2_OneReprompt ==
    cur.idx # 0 =>
        /\ \A i \in DOMAIN cur.order : Count(cur.order[i], cur.prompts) <= 2
        /\ \A i \in DOMAIN cur.order :
              Count(cur.order[i], cur.prompts) = 2 => cur.order[i] \in RequiredSet(CurSchema)
        /\ \A i \in DOMAIN cur.order :
              (i < cur.pos /\ cur.order[i] \in RequiredSet(CurSchema)) => cur.order[i] \in cur.given
        /\ cur.err = "required" =>
              /\ cur.result = "error"
              /\ Count(cur.order[cur.pos], cur.prompts) = 2
              /\ cur.order[cur.pos] \notin cur.given
              /\ request = NoRequest
              /\ pc \in {"Listening", "done"}

\* C2 witness: a required property got two empty answers and the attempt ended
\* with the error
C2_Witness ==
    /\ cur.err = "required"
    /\ cur.prompts = <<N_message, N_message>>
    /\ pc = "Listening"

\* C3: in the interactive session the per-call context exists only while
\* CallTool runs: none is running while the process reads a command, a tool
\* number or a parameter answer from the operator.
C3_NoScopeWhilePrompting ==
    pc \in {"Listening", "AwaitingToolSelection", "Collecting", "FreeForm"} => ~scope.active

\* C4: initialization and every catalogue fetch are bounded by -timeout, every
\* tool invocation by -call-timeout.
C4_TimeoutsNotConflated ==
    \A b \in bounded : b[2] = (IF b[1] = "callTool" THEN "callTimeout" ELSE "timeout")

\* C5: every call made from the session runs under a context of its own,
\* created for it with the full duration: no context is used by two calls,
\* and the context a call attempt starts with is a new one, running, with
\* the whole duration left, whatever happened to the one before.
C5_FreshScopePerCall ==
    /\ [](Cardinality(callScopes) = submits)
    /\ [][attempts' # attempts =>
            /\ scope'.id \notin callScopes
            /\ scope'.id # scope.id
            /\ scope'.active
            /\ scope'.left = CallTimeoutTicks]_vars

\* C5 witness: a second call of a session is running under its own context
\* after the first one ran out of time
C5_Witness ==
    /\ pc = "Calling"
    /\ submits = 2
    /\ Cardinality(callScopes) = 2
    /\ scope.left = CallTimeoutTicks
    /\ out = "calling"

\* the path the stated precedence selects for a command line
Precedence(f) ==
    CASE f.listOnly -> "listOnly"
      [] ~f.listOnly /\ f.callTool # "" -> "directCall"
      [] ~f.listOnly /\ f.callTool = "" /\ f.interactive -> "interactive"
      [] OTHER -> "discovery"

\* the program counters inside each path
PathOfPc ==
    [listOnly |-> {"listOnly"},
     directCall |-> {"directCall", "directCalling"},
     interactive |-> {"interactive", "Listening", "AwaitingToolSelection", "Collecting",
                      "FreeForm", "Calling"},
     discovery |-> {"discovery"}]

\* C6 as stated: the precedence is list-only > direct-call > interactive >
\* discovery, and every run that names a server, connects and initializes
\* runs exactly one path, the one the precedence selects.
C6_ExactlyOnePathPerRun ==
    (pc = "done" /\ out \notin {"usage", "unsupported", "createFailed", "startFailed",
                                "Failed to initialize"})
        => pathRun = {Precedence(flags)}

\* C6 as amended: a run never enters two paths; once the switch of main has
\* run, the path entered is the one the precedence list-only > direct-call >
\* interactive > discovery selects and the process is inside that path or
\* done; a run that ended without entering a path ended with exit code 1
\* before the switch.
C6_PrecedenceOnDispatch ==
    /\ Cardinality(pathRun) <= 1
    /\ pathRun # {} => pathRun = {Precedence(flags)}
    /\ \A m \in DOMAIN PathOfPc : pc \in PathOfPc[m] => pathRun = {m}
    /\ (attempts > 0 \/ cur.idx # 0) => pathRun = {"interactive"}
    /\ (pc = "done" /\ pathRun = {}) =>
          /\ exitCode = 1
          /\ out \in {"usage", "Input validation failed", "unsupported", "createFailed",
                      "startFailed", "Failed to initialize"}

\* C6 witness: a run given -list-only, -call and -interactive together listed
\* the tools and ended
C6_Witness ==
    /\ flags.listOnly /\ flags.callTool # "" /\ flags.interactive
    /\ pathRun = {"listOnly"}
    /\ pc = "done"
    /\ out = "tools"

\* C7: the properties of a schema are prompted in the order the schema
\* declares them, and in the same order on every collection for the schema.
C7_DeclaredOrder ==
    /\ (cur.idx # 0 /\ cur.order # <<>>) => cur.order = DeclaredOrder(CurSchema)
    /\ (cur.idx # 0 /\ prev.idx = cur.idx) => prev.order = cur.order

\* C8: a tool selected by its bare number and the same tool selected by
\* `call n` or `c n` go through the same sequence of property prompts, and the
\* request made is the one for that tool with the collected answers.
C8_BareEqualsCall ==
    /\ (cur.idx # 0 /\ prev.idx = cur.idx /\ prev.via # cur.via
            /\ {prev.via, cur.via} = {"bare", "call"})
          => prev.order = cur.order
    /\ (cur.via \in {"bare", "call"} /\ cur.result = "ok")
          => request = [name |-> Tools[cur.idx].name, args |-> cur.params]

\* whether a schema makes collectToolParameters return at once: it marshals to
\* null or {} or it holds no properties
NothingToAsk(schema) ==
    schema.kind \in {"null", "empty"} \/ (schema.kind = "object" /\ schema.props = <<>>)

C10_KeysExactlyAnswered ==
    (cur.idx # 0 /\ cur.order # <<>> /\ cur.result \in {"ok", "error"} /\ ~cur.cut
        /\ RequiredProps(CurSchema) \subseteq DOMAIN cur.params)
        => cur.result = "ok" /\ DOMAIN cur.params = cur.given

\* C10 as amended: a collection whose prompts were all answered, whose
\* required properties all got a non-empty answer and in which no answer
\* was rejected for its type returns a set whose keys are exactly the
\* properties that got a non-empty answer: an optional property answered
\* with an empty line is not a key of it.
C10_KeysExactlyValidAnswered ==
    (cur.idx # 0 /\ cur.order # <<>> /\ cur.result \in {"ok", "error"} /\ ~cur.cut
        /\ RequiredProps(CurSchema) \subseteq cur.given
        /\ cur.err \notin {"number", "object"})
        => /\ cur.result = "ok"
           /\ cur.pos = Len(cur.order) + 1
           /\ DOMAIN cur.params = cur.given
           /\ \A i \in DOMAIN cur.order :
                 Count(cur.order[i], cur.prompts) = 1 /\ cur.order[i] \notin cur.given
                    => cur.order[i] \notin DOMAIN cur.params

\* C10 witness: the required x of calc was answered, the optional n was
\* answered with an empty line, and the call was made with x alone
C10_Witness ==
    /\ cur.idx # 0
    /\ cur.result = "ok" /\ ~cur.cut
    /\ PropNames(CurSchema) = {N_x, N_n}
    /\ cur.prompts = <<N_x, N_n>>
    /\ cur.given = {N_x}
    /\ DOMAIN request.args = {N_x}

\* the name formatToolResult gives to the type of a content item
KindShown(kind) ==
    IF kind = "text" THEN "text"
    ELSE IF kind = "image" THEN "Image"
    ELSE IF kind = "audio" THEN "Audio"
    ELSE "Unknown content type"

\* C11: formatToolResult renders every content item of a result exactly once
\* and in the order of arrival, whatever its type and whatever -verbose is:
\* the blocks printed are as many as the items, and the i-th block holds a
\* line for the i-th item.
C11_EveryItemRendered ==
    shown.kind = "result" =>
        /\ Len(shown.blocks) = Len(reply.content)
        /\ \A i \in DOMAIN reply.content :
              /\ shown.blocks[i].line # <<>>
              /\ shown.blocks[i].line[1] = KindShown(reply.content[i].kind)

\* the categories of a failure
Categories ==
    {"NotFound", "ParameterValidationRequiredMissing", "ParameterValidation", "Timeout",
     "SessionExpired", "Unknown"}

\* the category the stated rules give to an error text: the first rule, in
\* the stated order, whose phrases the text holds
FirstRule(msg) ==
    CASE Contains(msg, K_notFound) -> "NotFound"
      [] /\ ~Contains(msg, K_notFound)
         /\ Contains(msg, K_parameter) /\ Contains(msg, K_required)
            -> "ParameterValidationRequiredMissing"
      [] /\ ~Contains(msg, K_notFound)
         /\ Contains(msg, K_parameter) /\ ~Contains(msg, K_required)
            -> "ParameterValidation"
      [] /\ ~Contains(msg, K_notFound) /\ ~Contains(msg, K_parameter)
         /\ Contains(msg, K_timeout)
            -> "Timeout"
      [] /\ ~Contains(msg, K_notFound) /\ ~Contains(msg, K_parameter)
         /\ ~Contains(msg, K_timeout) /\ Contains(msg, K_session)
            -> "SessionExpired"
      [] OTHER -> "Unknown"

\* C12: handleToolCallError is total and gives every error text exactly one
\* category, the one of the first rule that matches in the order "not found",
\* "parameter" and "required", "parameter", "timeout", the session phrase,
\* and otherwise Unknown.
C12_FirstMatchingRule ==
    pc = "classified" =>
        /\ shown.kind = "failure"
        /\ shown.msg = reply.msg
        /\ shown.category \in Categories
        /\ shown.category = FirstRule(reply.msg)

\* C12 witness: the text "required parameter", which the second and the third
\* rule both match, was put in the required-missing category
C12_Witness ==
    /\ pc = "classified"
    /\ reply.msg = K_required \o <<" ">> \o K_parameter
    /\ shown.category = "ParameterValidationRequiredMissing"

\* C13: the session rule matches the phrase "invalid session id" whatever the
\* case of its letters: a text that holds it in any case, and that no earlier
\* rule matches, is put in the SessionExpired category.
C13_SessionMatchIgnoresCase ==
    (/\ pc = "classified"
     /\ Contains(ToLower(reply.msg), K_sessionLower)
     /\ ~Contains(reply.msg, K_notFound)
     /\ ~Contains(reply.msg, K_parameter)
     /\ ~Contains(reply.msg, K_timeout))
        => shown.category = "SessionExpired"

\* CallTool returned because the deadline of its context had passed
DeadlineExpired == reply.kind = "error" /\ reply.msg = K_deadline

\* C14: a tool call that failed because its deadline expired is reported as a
\* failure of the Timeout category, in a direct call and in the interactive
\* session alike.
C14_DeadlineIsTimeout ==
    DeadlineExpired => shown.kind = "failure" /\ shown.category = "Timeout"

\* C15: every failure of a call attempt that is shown to the operator, in a
\* direct call and in the session and whatever its category, is shown with a
\* header, the remediation line of its category and the text of the error.
C15_HeaderHintAndOriginal ==
    shown.kind = "failure" =>
        /\ shown.header \in {"Failed to call tool", "Error"}
        /\ shown.category \in Categories
        /\ shown.hint
        /\ shown.original

\* what a step that read the command `text` at the prompt must be like, when
\* listWords are the words that list the tools: the words for exit, help,
\* list and call do what they name; `call n`, `c n` and a bare n with n the
\* number of a tool start a call attempt on that tool; every other token,
\* and every other n, gets a one-line error, and then no call attempt is
\* started, no request is submitted and the session is at its prompt again.
CommandRule(text, listWords) ==
    LET parts == Fields(text)
        command == parts[1]
        isCall == command \in {<<"c", "a", "l", "l">>, <<"c">>}
        index == IF isCall THEN (IF Len(parts) > 1 THEN parts[2] ELSE <<>>) ELSE command
        inRange == Atoi(index).ok /\ Atoi(index).n \in 1..Len(Tools)
        rejected == /\ pc' = "Listening"
                    /\ exitCode' = -1
                    /\ attempts' = attempts
                    /\ submits' = submits
                    /\ request' = NoRequest
                    /\ cur' = NoCall
    IN  IF command \in {<<"e", "x", "i", "t">>, <<"q", "u", "i", "t">>, <<"q">>}
        THEN pc' = "done" /\ exitCode' = 0 /\ submits' = submits
        ELSE IF command \in {<<"h", "e", "l", "p">>, <<"h">>, <<"?">>}
        THEN out' = "help" /\ pc' = "Listening" /\ submits' = submits
        ELSE IF command \in listWords
        THEN out' = "tools" /\ pc' = "Listening" /\ submits' = submits
        ELSE IF isCall /\ Len(parts) = 1
        THEN pc' = "AwaitingToolSelection" /\ attempts' = attempts /\ submits' = submits
        ELSE IF inRange
        THEN attempts' = attempts + 1 /\ cur'.idx = Atoi(index).n
        ELSE IF isCall
        THEN out' = "Invalid tool number" /\ rejected
        ELSE out' = "Unknown command" /\ rejected

\* a step of the session that read a non-empty command at its prompt
ReadsCommand == pc = "Listening" /\ ~eof' /\ line' # <<>>

\* C16 as stated: at the prompt of the session the commands are exactly
\* list|ls, call|c [index], a bare index, help|h|? and exit|quit|q; any other
\* token, an index after call that is no number or out of range, and a bare
\* number out of range get a one-line error, submit no call and leave the
\* session at its prompt.
C16_CommandsExactly ==
    [][ReadsCommand => CommandRule(line', {<<"l", "i", "s", "t">>, <<"l", "s">>})]_vars

\* C16 as amended: the same with `l` as a third word that lists the tools.
C16_CommandsWithL ==
    [][ReadsCommand => CommandRule(line', {<<"l", "i", "s", "t">>, <<"l", "s">>, <<"l">>})]_vars

\* C16 witness: `call 9`, an index out of range, got its one-line error and
\* the session is at its prompt with no call attempt started
C16_Witness ==
    /\ line = L_call9
    /\ out = "Invalid tool number"
    /\ pc = "Listening"
    /\ cur = NoCall
    /\ submits = 0

\* the program counters of the session loop and of a call attempt inside it
SessionPcs == {"Listening", "AwaitingToolSelection", "Collecting", "FreeForm", "Calling"}

\* C17: inside the session a failure at any stage of a call attempt (an
\* answer rejected for its type, a required answer missing, an error of the
\* invocation, the deadline) is printed and the session is at its prompt
\* again, the process still running; and the session ends only from its
\* prompt: with exit code 0 on exit|quit|q and at the end of the input, and
\* with exit code 1 only when reading the input itself failed.
C17_FailuresKeepSession ==
    /\ [](pathRun = {"interactive"} =>
            /\ (cur.result = "error" \/ reply.kind = "error" \/ shown.kind = "failure") =>
                  /\ shown.kind = "failure"
                  /\ shown.original
                  /\ out = "Error"
                  /\ pc = "Listening"
                  /\ exitCode = -1
            /\ pc \in SessionPcs => exitCode = -1)
    /\ [][(pc \in SessionPcs /\ pc' = "done") =>
            /\ pc = "Listening"
            /\ \/ eof' /\ line' = <<>> /\ exitCode' = 0
               \/ eof' /\ line' = <<>> /\ exitCode' = 1 /\ out' = "Interactive mode failed"
               \/ /\ ~eof'
                  /\ exitCode' = 0
                  /\ line' # <<>>
                  /\ Fields(line')[1] \in {<<"e", "x", "i", "t">>, <<"q", "u", "i", "t">>, <<"q">>}]_vars

\* C17 witness: the second call attempt of a session ran into its deadline
\* and the session is at its prompt again
C17_Witness ==
    /\ pathRun = {"interactive"}
    /\ attempts = 2
    /\ DeadlineExpired
    /\ shown.kind = "failure"
    /\ pc = "Listening"
    /\ exitCode = -1

\* what makes a run fatal: no -url, -params that is no JSON, a connection
\* that could not be made or started, a failed initialization, a failed
\* listing of the tools, a direct call whose parameters could not be decoded
\* or whose invocation returned an error, and standard input that failed
FatalCause ==
    \/ ~flags.url
    \/ validateInputs(flags.callTool, flags.toolParams)
    \/ out \in {"unsupported", "createFailed", "startFailed"}
    \/ out = "Failed to initialize"
    \/ out \in {"Failed to list tools", "Interactive mode failed"}
    \/ pathRun = {"directCall"} /\ (reply.kind = "error" \/ shown.kind = "failure")

\* C18: the process ends with exit code 0 when the path it ran completed,
\* the session left with exit|quit|q included, and with exit code 1 on every
\* fatal path: a failed connection, a failed initialization, a direct call
\* whose invocation failed, -params that failed validation.  A direct call
\* that returned a result ends with 0, also when the result is flagged as
\* an error of the tool.
C18_ExitCodes ==
    /\ pc # "done" => exitCode = -1
    /\ pc = "done" =>
          /\ exitCode = (IF FatalCause THEN 1 ELSE 0)
          /\ out \in {"unsupported", "createFailed", "startFailed", "Failed to initialize",
                      "Input validation failed", "Failed to call tool"} => exitCode = 1
          /\ out \in {"tools", "capabilities", "Exiting interactive mode", "Finished",
                      "Tool call succeeded", "Tool call failed"} => exitCode = 0
          /\ (pathRun = {"directCall"} /\ reply.kind = "result") => exitCode = 0

\* C18 witness: a direct call whose invocation returned an error ended the
\* process with exit code 1
C18_Witness ==
    /\ pc = "done"
    /\ pathRun = {"directCall"}
    /\ reply.kind = "error"
    /\ out = "Failed to call tool"
    /\ exitCode = 1

\* the text is one JSON object
IsJSONObject(s) == Decode(s).ok /\ Decode(s).val.t = "object"

\* C19: in a direct call an empty -params or the literal {} gives an empty
\* parameter set without error; any other text is accepted only when it is a
\* JSON object, whose members are then the set; otherwise the run fails with
\* a parameter error, no set is produced and no call is submitted.
C19_OnlyObjectsAccepted ==
    /\ (flags.callTool # "" /\ pc = "done" /\ pathRun = {}
            /\ ~(flags.toolParams \in {<<>>, P_default} \/ IsJSONObject(flags.toolParams)))
          => submits = 0 /\ request = NoRequest /\ exitCode = 1
    /\ (pathRun = {"directCall"} /\ pc \in {"directCalling", "done"}) =>
          IF flags.toolParams \in {<<>>, P_default}
          THEN submits = 1 /\ request.args = EmptyMap
          ELSE IF IsJSONObject(flags.toolParams)
          THEN submits = 1 /\ request.args = ObjToMap(Decode(flags.toolParams).val)
          ELSE /\ submits = 0
               /\ request = NoRequest
               /\ exitCode = 1
               /\ shown.kind = "failure"
               /\ shown.category \in {"ParameterValidation", "ParameterValidationRequiredMissing"}

\* C20: the request handed to CallTool names the selected tool, or the tool
\* named by -call, and carries as arguments exactly the collected parameter
\* set, no key added, dropped or changed; nothing is handed over before the
\* collection has returned one.  A direct call with
\* {"operation":"add","x":5,"y":3} submits these three keys with the string
\* and the two numbers.
C20_RequestIsCollectedSet ==
    /\ cur.idx # 0 =>
          IF cur.result = "ok"
          THEN /\ request.name = Tools[cur.idx].name
               /\ DOMAIN request.args = DOMAIN cur.params
               /\ \A k \in DOMAIN cur.params : request.args[k] = cur.params[k]
          ELSE request = NoRequest
    /\ (pathRun = {"directCall"} /\ submits = 1) =>
          /\ request.name = flags.callTool
          /\ flags.toolParams = P_msg =>
                /\ DOMAIN request.args = {N_message}
                /\ request.args[N_message] = StrV(A_Hello)
          /\ flags.toolParams = P_calc =>
                /\ DOMAIN request.args = {N_operation, N_x, N_y}
                /\ request.args[N_operation] = StrV(<<"a", "d", "d">>)
                /\ request.args[N_x] = FloatV(5, 1)
                /\ request.args[N_y] = FloatV(3, 1)
    /\ submits = 0 => request = NoRequest

\* C20 witness: in a guided call of echo the prompt for message was answered
\* with Hello and the request is {echo, {message: Hello}}
C20_Witness ==
    /\ cur.idx # 0
    /\ cur.via = "guided"
    /\ cur.prompts = <<N_message>>
    /\ pc = "Calling"
    /\ request.name = "echo"
    /\ DOMAIN request.args = {N_message}
    /\ request.args[N_message] = StrV(A_Hello)

\* a step of the session that read a line at the tool-number prompt
ReadsSelection == pc = "AwaitingToolSelection" /\ ~eof'

\* C21: the tool-number prompt is only reached by `call` or `c` without an
\* argument, with no call attempt under way; answering it with `cancel` or
\* an empty line brings the session back to its command prompt with no
\* parameter prompt, no error and no call; answering it with the number of a
\* tool starts the call attempt on that tool.
C21_CancelOrSelect ==
    /\ [](pc = "AwaitingToolSelection" =>
            /\ line \in {<<"c", "a", "l", "l">>, <<"c">>}
            /\ cur = NoCall
            /\ request = NoRequest)
    /\ [][ReadsSelection =>
            IF line' \in {<<"c", "a", "n", "c", "e", "l">>, <<>>}
            THEN /\ pc' = "Listening"
                 /\ exitCode' = -1
                 /\ cur' = NoCall
                 /\ request' = NoRequest
                 /\ attempts' = attempts
                 /\ submits' = submits
                 /\ shown' = NoShown
            ELSE IF Atoi(line').ok /\ Atoi(line').n \in 1..Len(Tools)
            THEN /\ attempts' = attempts + 1
                 /\ cur'.idx = Atoi(line').n
                 /\ cur'.via = "guided"
                 /\ pc' \in {"Collecting", "FreeForm", "Calling"}
            ELSE /\ pc' = "Listening"
                 /\ cur' = NoCall
                 /\ submits' = submits
                 /\ shown'.kind = "failure"]_vars

\* C21 witness: the tool-number prompt was answered with `cancel` and the
\* session is at its command prompt with no call attempt
C21_Witness ==
    /\ line = L_cancel
    /\ out = "cancelled"
    /\ pc = "Listening"
    /\ cur = NoCall
    /\ submits = 0

\* C22: a tool is selected by its name as it is by its number: the name of a
\* tool of the catalogue, entered at the command prompt or at the
\* tool-number prompt, starts a call attempt on that tool.
C22_SelectByName ==
    [][((ReadsCommand \/ ReadsSelection) /\ line' = L_echo /\ attempts < MaxCalls) =>
            /\ attempts' = attempts + 1
            /\ cur'.idx # 0
            /\ Tools[cur'.idx].name = "echo"]_vars

\* the type the schema declares for the property asked for ("" when its
\* "type" is missing or no string)
DeclaredType == IF asked.prop.typed THEN asked.prop.type ELSE ""

\* C23: the collection fails on an answer exactly when the property is a
\* number or an integer and the answer is no number, or the property is an
\* object and the answer is no JSON object; an answer to a boolean, an array
\* or a string property never fails.  On a failure the values collected so
\* far are given up and no call is submitted.
C23_CoercionErrorsExactly ==
    pc = "asked" =>
        /\ cur.result = "error" <=>
              \/ DeclaredType \in {"number", "integer"} /\ ~ParseFloat(asked.input).ok
              \/ DeclaredType = "object" /\ ~IsJSONObject(asked.input)
        /\ cur.result = "error" =>
              /\ cur.params = EmptyMap
              /\ request = NoRequest
              /\ submits = 0

\* the text is one JSON array
IsJSONArray(s) == Decode(s).ok /\ Decode(s).val.t = "array"

\* C24: an answer to an array property that is a JSON array is stored as the
\* elements of that array; any other answer is split at its commas and the
\* pieces are stored as strings: ["a","b"] gives the two elements a and b,
\* and a,b,c gives the three strings a, b and c.
C24_ArrayParseThenSplit ==
    (pc = "asked" /\ DeclaredType = "array") =>
        /\ cur.result = "ok"
        /\ DOMAIN cur.params = {N_x}
        /\ IF IsJSONArray(asked.input)
           THEN cur.params[N_x] = ArrV(Decode(asked.input).val.elems)
           ELSE cur.params[N_x] = StringsV(SplitComma(asked.input))
        /\ asked.input = T_ab =>
              cur.params[N_x] = ArrV(<<StrV(<<"a">>), StrV(<<"b">>)>>)
        /\ asked.input = T_abc =>
              cur.params[N_x] = StringsV(<<<<"a">>, <<"b">>, <<"c">>>>)

\* the value stored for the property asked for
StoredValue == cur.params[N_x]

\* C25: an answer that parses as a number is stored, for an integer
\* property, as the whole number that is the parsed value cut toward zero,
\* and for a number property as the parsed value with its fraction: 7 as an
\* integer gives the whole number 7, 7.5 as a number gives 7.5.
C25_IntegerTruncates ==
    (pc = "asked" /\ DeclaredType \in {"number", "integer"} /\ ParseFloat(asked.input).ok) =>
        /\ cur.result = "ok"
        /\ DOMAIN cur.params = {N_x}
        /\ DeclaredType = "integer" =>
              /\ StoredValue.t = "int"
              /\ StoredValue.d = 1
              /\ IF ParseFloat(asked.input).n >= 0
                 THEN /\ StoredValue.n * ParseFloat(asked.input).d <= ParseFloat(asked.input).n
                      /\ ParseFloat(asked.input).n < (StoredValue.n + 1) * ParseFloat(asked.input).d
                 ELSE /\ StoredValue.n * ParseFloat(asked.input).d >= ParseFloat(asked.input).n
                      /\ ParseFloat(asked.input).n > (StoredValue.n - 1) * ParseFloat(asked.input).d
        /\ DeclaredType = "number" =>
              /\ StoredValue.t = "float"
              /\ StoredValue.n * ParseFloat(asked.input).d = ParseFloat(asked.input).n * StoredValue.d
        /\ (DeclaredType = "integer" /\ asked.input = A_7) => StoredValue = IntV(7)
        /\ (DeclaredType = "integer" /\ asked.input = A_7p5) => StoredValue = IntV(7)
        /\ (DeclaredType = "integer" /\ asked.input = T_minus) => StoredValue = IntV(0 - 7)
        /\ (DeclaredType = "number" /\ asked.input = A_7p5) =>
              StoredValue.n = 75 /\ StoredValue.d = 10

\* C25 witness: 7.5 answered to an integer property was stored as the whole
\* number 7
C25_Witness ==
    /\ pc = "asked"
    /\ DeclaredType = "integer"
    /\ asked.input = A_7p5
    /\ cur.result = "ok"
    /\ StoredValue = IntV(7)

\* the six types the switch of the parameter loop knows
KnownTypes == {"string", "number", "integer", "boolean", "array", "object"}

\* what C26 says apart from the type the prompt shows: the schema itself never
\* makes the collection fail; an answer to a property whose type is missing,
\* no string or none of the six types is stored as the text read; and the
\* property is asked as required exactly when a string entry of the required
\* list names it
PermissiveSchema ==
    /\ cur.result \in {"ok", "error"}
    /\ cur.result = "error" => cur.err \in {"number", "object"} /\ DeclaredType \in KnownTypes
    /\ DeclaredType \notin KnownTypes =>
          /\ cur.result = "ok"
          /\ StoredValue = StrV(asked.input)
    /\ asked.marked = "required" <=>
          \E i \in DOMAIN asked.required :
              asked.required[i].isStr /\ asked.required[i].s = asked.prop.name
    /\ asked.marked \in {"required", "optional"}

\* C26 as stated: the schema is read permissively and never raises an error; a
\* property whose type is missing or none of the six types is taken as a
\* string: its prompt shows the type string and its answer is stored as
\* read; entries of required that are no strings are ignored.
C26_UnknownTypeShownAsString ==
    pc = "asked" =>
        /\ PermissiveSchema
        /\ DeclaredType \notin KnownTypes => asked.shownType = "string"

\* C26 as amended: the same, but the prompt shows the type string only when
\* the type is missing or no string; a type that is a string other than the
\* six is shown as declared, and its answer is stored as read all the same.
C26_UnknownTypeStoredAsString ==
    pc = "asked" =>
        /\ PermissiveSchema
        /\ ~asked.prop.typed => asked.shownType = "string"
        /\ asked.prop.typed => asked.shownType = asked.prop.type

\* C26 witness: a property of the type date, listed after an entry of
\* required that is no string, was asked as optional with the type date and
\* the answer Hello was stored as read
C26_Witness ==
    /\ pc = "asked"
    /\ asked.prop = PropS(N_x, TRUE, "date")
    /\ asked.required = <<ReqOther, ReqS(N_ghost)>>
    /\ asked.input = A_Hello
    /\ asked.shownType = "date"
    /\ asked.marked = "optional"
    /\ StoredValue = StrV(A_Hello)

\* the program counters at which a CallTool is outstanding
CallingPcs == {"Calling", "directCalling"}

\* a step taken while a call is outstanding: nothing is read and no attempt
\* starts; either time passes, or the call returns, with the deadline error
\* when its time is up, and its context is released
WaitsInCall ==
    /\ line' = line
    /\ eof' = eof
    /\ cur' = cur
    /\ request' = request
    /\ attempts' = attempts
    /\ submits' = submits
    /\ IF pc' = pc
       THEN reply' = reply /\ scope'.left = scope.left - 1
       ELSE /\ pc' \in {"Listening", "done"}
            /\ reply'.kind \in {"result", "error"}
            /\ scope.left = 0 => reply' = ErrorReply(K_deadline)
            /\ ~scope'.active

\* a step that hands a call to the client
IssuesCall ==
    /\ pc \notin CallingPcs
    /\ pc' \in CallingPcs
    /\ submits' = submits + 1

\* C27: the run is sequential: a call is handed to the client only when none
\* is outstanding, one at a time, and the process then waits in that call;
\* while it waits nothing is read from the operator and no attempt is
\* started, only time passes, until the call returns a result or an error
\* (its deadline included), and only then does the run go on.
C27_OneCallAtATime ==
    /\ [](pc \in CallingPcs => submits >= 1 /\ scope.active /\ scope.id \in callScopes)
    /\ [][submits' # submits => IssuesCall]_vars
    /\ [][(pc \in CallingPcs) => WaitsInCall]_vars

\* C27 witness: the second call of a session is outstanding and time has
\* passed while the process waits for it
C27_Witness ==
    /\ pc = "Calling"
    /\ submits = 2
    /\ attempts = 2
    /\ scope.active
    /\ scope.left < CallTimeoutTicks
    /\ reply = NoReply

\* the direct call has ended
DirectCallEnded == pc = "done" /\ flags.callTool # "" /\ ~flags.listOnly /\ pathRun = {"directCall"}

\* C28: the exit code of a direct call depends only on whether parsing the
\* parameters or CallTool returned an error: it is 1 exactly when no call
\* was submitted because the parameters did not parse, or the call returned
\* an error, and the failure report is then printed; when the call returned
\* a result the result is printed and the exit code is 0, and a result
\* flagged IsError is printed under the header "Tool call failed" while the
\* exit code is still 0.
C28_IsErrorResultExitsZero ==
    DirectCallEnded =>
        /\ exitCode = (IF submits = 0 \/ reply.kind = "error" THEN 1 ELSE 0)
        /\ submits = 0 => reply = NoReply /\ ~parseToolParameters(flags.toolParams).ok
        /\ exitCode = 1 <=> shown.kind = "failure"
        /\ reply.kind = "result" =>
              /\ exitCode = 0
              /\ shown = formatToolResult(reply, flags.verbose)
              /\ shown.header = (IF reply.isError THEN "Tool call failed" ELSE "Tool call succeeded")
              /\ out = shown.header

\* C28 witness: a direct call returned a result flagged IsError; it was
\* printed under the failure header and the process ended with exit code 0
C28_Witness ==
    /\ DirectCallEnded
    /\ reply.kind = "result"
    /\ reply.isError
    /\ shown.kind = "result"
    /\ shown.header = "Tool call failed"
    /\ exitCode = 0

\* the run stopped before a connection was created: nothing was started, no
\* mode ran, no context was created and no call was made, and if the process
\* has ended it ended with exit code 1 on the usage text or the validation
StoppedBeforeConnect ==
    /\ pc \in {"start", "done"}
    /\ pathRun = {}
    /\ bounded = {}
    /\ submits = 0
    /\ out \in {"none", "usage", "Input validation failed"}
    /\ pc = "done" => exitCode = 1

\* without -call the -params text plays no part: the validation does not
\* fail and no direct call, the only reader of -params, is run
ParamsNotExamined ==
    /\ out \notin {"Input validation failed", "Failed to call tool"}
    /\ "directCall" \notin pathRun
    /\ pc = "done" /\ exitCode = 1 => out # "Failed to call tool"

\* C29 as stated: with a tool named by -call, every -params text that is not
\* valid JSON stops the run before the connection, -list-only set or not;
\* without -call the -params text is not examined and cannot fail the run.
C29_InvalidParamsStopBeforeConnect ==
    /\ (flags.callTool # "" /\ ~UnmarshalAny(flags.toolParams)) => StoppedBeforeConnect
    /\ flags.callTool = "" => ParamsNotExamined

\* C29 amended: with a tool named by -call, every -params text that is not
\* empty and is not valid JSON stops the run before the connection is
\* created and before the mode is chosen, -list-only set or not; the
\* validation fails in no other case, and only as the step after the -url
\* check; without -call the -params text is not examined and cannot fail
\* the run.
C29_NonEmptyInvalidParamsStopBeforeConnect ==
    /\ (flags.callTool # "" /\ flags.toolParams # <<>> /\ ~UnmarshalAny(flags.toolParams))
          => StoppedBeforeConnect
    /\ out = "Input validation failed" =>
          /\ flags.url /\ flags.callTool # "" /\ flags.toolParams # <<>>
          /\ ~UnmarshalAny(flags.toolParams)
          /\ pc = "done" /\ exitCode = 1
    /\ flags.callTool = "" => ParamsNotExamined

\* C29 witness: -call and -list-only were given with -params that is not
\* JSON; the process ended on the validation with exit code 1, unconnected
C29_Witness ==
    /\ pc = "done"
    /\ flags.url
    /\ flags.listOnly
    /\ flags.callTool # ""
    /\ flags.toolParams = P_bad
    /\ out = "Input validation failed"
    /\ exitCode = 1
    /\ pathRun = {}
    /\ bounded = {}

\* C30: the guided collection prompts only for the names of the schema's
\* properties and stores only such keys; a name that "required" lists but
\* the properties do not have is never prompted and never fails the
\* collection: the only error of a missing required value is an empty answer
\* given twice to a property that was prompted, and the request is handed
\* over with the keys collected, that name not among them.
C30_RequiredWithoutPropertyIgnored ==
    cur.idx # 0 =>
        LET schema == Tools[cur.idx].schema
        IN  /\ \A i \in DOMAIN cur.prompts : cur.prompts[i] \in PropNames(schema)
            /\ cur.given \subseteq PropNames(schema)
            /\ cur.freeform = 0 => DOMAIN cur.params \subseteq PropNames(schema)
            /\ (cur.result = "error" /\ cur.err = "required") =>
                  /\ cur.second
                  /\ cur.order[cur.pos] \in PropNames(schema) \cap RequiredSet(schema)
                  /\ cur.order[cur.pos] \notin cur.given
                  /\ cur.prompts[Len(cur.prompts)] = cur.order[cur.pos]
            /\ (cur.result = "ok" /\ cur.freeform = 0) =>
                  DOMAIN request.args \cap (RequiredSet(schema) \ PropNames(schema)) = {}

\* C30 witness: calc lists ghost in "required" without such a property; x and
\* n were prompted and answered, and the call is submitted with x and n only
C30_Witness ==
    /\ pc = "Calling"
    /\ cur.idx # 0
    /\ N_ghost \in RequiredSet(Tools[cur.idx].schema) \ PropNames(Tools[cur.idx].schema)
    /\ Range(cur.prompts) = {N_x, N_n}
    /\ cur.given = {N_x, N_n}
    /\ cur.result = "ok"
    /\ request.name = "calc"
    /\ DOMAIN request.args = {N_x, N_n}

====
